---------------------------- MODULE Spec2Model ----------------------------
(***************************************************************************)
(* A model of the WeatherAgent dashboard (src/ai_agent/weather_dashboard.py *)
(* and src/ai_agent/weather_agent.py): the HTTP retry layer, the geocoder,  *)
(* the nearest-station scan, the 3-hour rain forecast and the Streamlit     *)
(* session that ties them together.                                         *)
(***************************************************************************)
EXTENDS Integers, Sequences, FiniteSets, TLC

(***************************************************************************)
(* Bounds of the model.                                                     *)
(***************************************************************************)
\* largest max_retries argument explored
MaxRetries == 4
\* longest station list of the feed explored
MaxStations == 3
\* longest series of forecast points explored
MaxPoints == 3
\* the time, in seconds, at which the model stops the clock
MaxClock == 5400
\* the time, in seconds, at which the model stops the clock of a session
SessionMaxClock == 900
\* longest list of day objects of the 5-day forecast explored
MaxDays == 2

(***************************************************************************)
(* State.                                                                   *)
(***************************************************************************)
VARIABLES
    \* ---- api_request_with_retry (one call in progress) ----
    max_retries,   \* the max_retries argument of the call
    attempt,       \* the loop variable of `for attempt in range(max_retries)`
    rpc,           \* "loop" | "returned" | "raised"
    log,           \* outcome of every requests.get issued so far, in order
    sleeps,        \* argument of every time.sleep executed so far, in order
    error,         \* which `raise Exception(...)` ended the call, or "none"
    \* ---- one nearest-station search ----
    stations,      \* data['actual']['stationmeasurements'] of the feed
    user_coords,   \* the query coordinate
    searched,      \* which search ran: "none" | "dashboard" | "multi_city" | "agent"
    nearest,       \* what the search produced
    \* ---- one 3-hour rain forecast ----
    forecast_points,  \* the (intensity, time label) series the endpoint holds
    response_text,    \* response.text, a sequence of characters
    forecast_by,      \* which function ran: "none" | "dashboard" | "agent"
    forecast_msg,     \* what it returned or raised
    \* ---- geocoder ----
    clock,         \* the time, in seconds
    city_cache,    \* st.cache_data of get_city_coordinates, by argument
    geo,           \* the last call of get_city_coordinates: argument, value,
                   \* exception, whether the service was asked
    \* ---- one browser session of the dashboard ----
    first_load,    \* st.session_state.first_load
    weather_data,  \* st.session_state.weather_data
    city_name,     \* st.session_state.city_name
    stations_cache, \* st.cache_data of get_all_stations
    forecast_cache, \* st.cache_data of get_forecast, by (lat, lon)
    five_day_cache, \* st.cache_data of get_five_day_forecast
    feed,          \* the station list the upstream feed holds now
    pc,            \* where the script run is; "idle" between runs
    submitted,     \* the form's submit flag in this run
    city_input,    \* the form's text input `city` in this run
    script,        \* the script's variables coords, station, distance,
                   \* all_stations, and the list find_nearest_station scanned
    shown,         \* what this run has put on the page
    at,            \* when the station and the list of weather_data were
                   \* fetched from the feed (history)
    \* ---- one derivation of advice from a station reading ----
    reading,       \* the station object handed to the function
    advised,       \* which derivation ran: "none" | "message" | "act" |
                   \* "clothing" | "activities" | "row"
    advice,        \* what it returned, or the exception it raised
    \* ---- one run of the 5-day forecast section ----
    fivedayforecast,  \* data['forecast']['fivedayforecast'] of the feed
    forecast_fetch,   \* what get_five_day_forecast() does: "ok" or the error
    five_day          \* what the section has put on the page

retryVars == <<max_retries, attempt, rpc, log, sleeps, error>>

nearestVars == <<stations, user_coords, searched, nearest>>

forecastVars == <<forecast_points, response_text, forecast_by, forecast_msg>>

geoVars == <<clock, city_cache, geo>>

\* The caches only the display section reads.
displayCaches == <<forecast_cache, five_day_cache>>

sessionVars == <<first_load, weather_data, city_name, stations_cache, feed, pc,
                 submitted, city_input, script, shown, at, displayCaches>>

adviceVars == <<reading, advised, advice>>

fiveDayVars == <<fivedayforecast, forecast_fetch, five_day>>

vars == <<retryVars, nearestVars, forecastVars, geoVars, sessionVars, adviceVars,
          fiveDayVars>>

\* What the steps of one component leave alone.
retryFrame ==
    <<nearestVars, forecastVars, geoVars, sessionVars, adviceVars, fiveDayVars>>

nearestFrame ==
    <<retryVars, forecastVars, geoVars, sessionVars, adviceVars, fiveDayVars>>

forecastFrame ==
    <<retryVars, nearestVars, geoVars, sessionVars, adviceVars, fiveDayVars>>

geoFrame ==
    <<retryVars, nearestVars, forecastVars, sessionVars, adviceVars, fiveDayVars>>

sessionFrame ==
    <<retryVars, nearestVars, forecastVars, geo, adviceVars, fiveDayVars>>

adviceFrame ==
    <<retryVars, nearestVars, forecastVars, geoVars, sessionVars, fiveDayVars>>

fiveDayFrame ==
    <<retryVars, nearestVars, forecastVars, geoVars, sessionVars, adviceVars>>

\* Python's None: where a number is expected (a value outside every range of
\* numbers the model uses), where a station object is expected, and where a
\* coordinate pair is expected.
NoneNum == -1000000

NoStation == [none |-> TRUE]

NoCoords == <<>>

\* All sequences over S of length at most n.
SeqUpTo(S, n) == UNION {[1..k -> S] : k \in 0..n}

\* The values a sequence holds.
Range(f) == {f[i] : i \in DOMAIN f}

(***************************************************************************)
(* api_request_with_retry, weather_dashboard.py:18-42                       *)
(***************************************************************************)
\* default of the max_retries parameter
DefaultMaxRetries == 3

\* What requests.get(...) followed by raise_for_status() can do: hand back a
\* response, or raise one of the classes of requests.exceptions.
RequestExceptions ==
    {"ReadTimeout", "ConnectTimeout", "ConnectionError", "HTTPError",
     "TooManyRedirects"}

RequestOutcomes == {"ok"} \cup RequestExceptions

\* The classes an exception is an instance of (requests.exceptions: a
\* ConnectTimeout is both a ConnectionError and a Timeout).
Bases(e) ==
    CASE e = "ReadTimeout"      -> {"Timeout", "RequestException"}
      [] e = "ConnectTimeout"   -> {"ConnectionError", "Timeout", "RequestException"}
      [] e = "ConnectionError"  -> {"ConnectionError", "RequestException"}
      [] e = "HTTPError"        -> {"HTTPError", "RequestException"}
      [] e = "TooManyRedirects" -> {"RequestException"}

\* The causes a failure can be said to have (timeout / connection / HTTP
\* status / other).
Causes(e) ==
    LET named == (IF "Timeout" \in Bases(e) THEN {"timeout"} ELSE {})
                 \cup (IF "ConnectionError" \in Bases(e) THEN {"connection"} ELSE {})
                 \cup (IF "HTTPError" \in Bases(e) THEN {"http"} ELSE {})
    IN  IF named = {} THEN {"other"} ELSE named

\* A wrong order of the except clauses: the generic clause ahead of HTTPError.
ExceptClauseGenericFirst(e) ==
    IF "Timeout" \in Bases(e) THEN "timeout"
    ELSE IF "ConnectionError" \in Bases(e) THEN "connection"
    ELSE IF "RequestException" \in Bases(e) THEN "other"
    ELSE "http"

\* The except clause that catches e: the first one, top to bottom, whose
\* class e is an instance of (lines 25, 29, 33, 37).
ExceptClause(e) ==
    IF "Timeout" \in Bases(e) THEN "timeout"
    ELSE IF "ConnectionError" \in Bases(e) THEN "connection"
    ELSE IF "HTTPError" \in Bases(e) THEN "http"
    ELSE "other"

\* A doubled delay.
BackoffOffByOne(a) == 2 ^ (a + 1)

\* time.sleep(2 ** attempt)
Backoff(a) == 2 ^ a

\* An off-by-one in the last-attempt test.
IsLastAttemptOffByOne(a, n) == a = n

\* `if attempt == max_retries - 1`
IsLastAttempt(a, n) == a = n - 1

\* A loop body without its `return`: the response is dropped and the loop
\* goes on.
RequestSucceedsKeepsLooping ==
    /\ rpc = "loop"
    /\ attempt < max_retries
    /\ log' = Append(log, "ok")
    /\ attempt' = attempt + 1
    /\ UNCHANGED <<max_retries, rpc, sleeps, error, retryFrame>>

\* One iteration of the loop body whose request succeeds: `return response`.
RequestSucceeds ==
    /\ rpc = "loop"
    /\ attempt < max_retries
    /\ log' = Append(log, "ok")
    /\ rpc' = "returned"
    /\ UNCHANGED <<max_retries, attempt, sleeps, error, retryFrame>>

\* One iteration of the loop body whose request raises e: the except clause
\* either raises (last attempt) or sleeps and lets the loop go on.
RequestFails(e) ==
    /\ rpc = "loop"
    /\ attempt < max_retries
    /\ log' = Append(log, e)
    /\ IF IsLastAttempt(attempt, max_retries)
       THEN /\ rpc' = "raised"
            /\ error' = ExceptClause(e)
            /\ UNCHANGED <<attempt, sleeps>>
       ELSE /\ sleeps' = Append(sleeps, Backoff(attempt))
            /\ attempt' = attempt + 1
            /\ UNCHANGED <<rpc, error>>
    /\ UNCHANGED <<max_retries, retryFrame>>

\* range(max_retries) is used up without a return or a raise: line 42.
RetryFallThrough ==
    /\ rpc = "loop"
    /\ attempt >= max_retries
    /\ rpc' = "raised"
    /\ error' = "exhausted"
    /\ UNCHANGED <<max_retries, attempt, log, sleeps, retryFrame>>

\* No call of api_request_with_retry is being followed.
RetryIdle ==
    /\ max_retries = DefaultMaxRetries
    /\ attempt = 0
    /\ rpc = "idle"
    /\ log = <<>>
    /\ sleeps = <<>>
    /\ error = "none"

RetryStart ==
    /\ max_retries \in 0..MaxRetries
    /\ attempt = 0
    /\ rpc = "loop"
    /\ log = <<>>
    /\ sleeps = <<>>
    /\ error = "none"

RetryStep ==
    \/ RequestSucceeds
    \/ \E e \in RequestExceptions : RequestFails(e)
    \/ RetryFallThrough

(***************************************************************************)
(* Nearest-station search: find_nearest_station (weather_dashboard.py       *)
(* 115-132), the per-city scan of get_multi_city_weather (399-409) and      *)
(* WeatherAgent.find_nearest_station (weather_agent.py 28-46).              *)
(* Coordinates are (lat, lon) pairs in units of 1e-5 degree.                *)
(***************************************************************************)
\* float("inf"): above every distance of the model
Inf == 2147483647

Abs(x) == IF x < 0 THEN -x ELSE x

\* geodesic(a, b).km. The scans only compare distances, so the ellipsoidal
\* distance is replaced by a metric on the coordinate grid that, like it, is
\* 0 exactly between equal points, symmetric, and can tie.
geodesic(a, b) == Abs(a[1] - b[1]) + Abs(a[2] - b[2])

\* A comparison that lets an equally distant station replace the candidate.
CloserOrEqual(distance, min_distance) == distance <= min_distance

\* `if distance < min_distance:`
Closer(distance, min_distance) == distance < min_distance

\* A scan that records the station but not its distance.
ScanStepKeepsInf(best, station, distance) ==
    IF Closer(distance, best.min_distance)
    THEN [nearest_station |-> station, min_distance |-> best.min_distance]
    ELSE best

\* The body of `for station in stations:` after the distance is computed.
ScanStep(best, station, distance) ==
    IF Closer(distance, best.min_distance)
    THEN [nearest_station |-> station, min_distance |-> distance]
    ELSE best

\* Python truthiness of a feed field: None and 0 are false.
Truthy(x) == x # NoneNum /\ x # 0

\* find_nearest_station's loop over stations[i..], starting from best.
RECURSIVE ScanFrom(_, _, _, _)
ScanFrom(list, coords, i, best) ==
    IF i > Len(list) THEN best
    ELSE ScanFrom(list, coords, i + 1,
                  ScanStep(best, list[i],
                           geodesic(coords, <<list[i].lat, list[i].lon>>)))

\* find_nearest_station(user_coords) on a fetched station list: the pair
\* (nearest_station, min_distance) it returns.
find_nearest_station(list, coords) ==
    ScanFrom(list, coords, 1, [nearest_station |-> NoStation, min_distance |-> Inf])

\* get_multi_city_weather's loop over all_stations[i..] for one city: a
\* station takes part only if its lat and lon are truthy.
RECURSIVE MultiCityScanFrom(_, _, _, _)
MultiCityScanFrom(list, coords, i, best) ==
    IF i > Len(list) THEN best
    ELSE MultiCityScanFrom(list, coords, i + 1,
            IF Truthy(list[i].lat) /\ Truthy(list[i].lon)
            THEN ScanStep(best, list[i],
                          geodesic(coords, <<list[i].lat, list[i].lon>>))
            ELSE best)

MultiCityScan(list, coords) ==
    MultiCityScanFrom(list, coords, 1,
                      [nearest_station |-> NoStation, min_distance |-> Inf])

\* comparison_cities of get_multi_city_weather
ComparisonCities ==
    [Amsterdam |-> <<5236760, 490410>>,
     Rotterdam |-> <<5192250, 447917>>,
     TheHague  |-> <<5207050, 430070>>,
     Utrecht   |-> <<5209070, 512140>>,
     Eindhoven |-> <<5144160, 546970>>]

\* Station objects of the feed. Schiphol and Zaandam are at the same distance
\* from Amsterdam, and IJmond stands where Schiphol stands.
StationPool ==
    {[stationname |-> "Schiphol", lat |-> 5231760, lon |-> 490410, temperature |-> 12],
     [stationname |-> "Zaandam",  lat |-> 5241760, lon |-> 490410, temperature |-> 9],
     [stationname |-> "IJmond",   lat |-> 5231760, lon |-> 490410, temperature |-> 11],
     [stationname |-> "DeBilt",   lat |-> 5210000, lon |-> 518000, temperature |-> 8]}

\* The coordinates a search is made for.
QueryCoords == {ComparisonCities.Amsterdam, ComparisonCities.Utrecht,
                ComparisonCities.Eindhoven}

NearestIdle ==
    /\ stations = <<>>
    /\ user_coords = NoCoords
    /\ searched = "none"
    /\ nearest = NoStation

NearestStart ==
    /\ stations \in SeqUpTo(StationPool, MaxStations)
    /\ user_coords \in QueryCoords
    /\ searched = "none"
    /\ nearest = NoStation

\* station, distance = find_nearest_station(coords)
CallFindNearestStation ==
    /\ searched = "none"
    /\ searched' = "dashboard"
    /\ nearest' = find_nearest_station(stations, user_coords)
    /\ UNCHANGED <<stations, user_coords, nearestFrame>>

\* The scan get_multi_city_weather makes for one comparison city.
CallMultiCityScan ==
    /\ searched = "none"
    /\ searched' = "multi_city"
    /\ nearest' = MultiCityScan(stations, user_coords)
    /\ UNCHANGED <<stations, user_coords, nearestFrame>>

\* WeatherAgent.find_nearest_station: the same scan, then self.data is set
\* and nearest_station['stationname'] is printed, which raises TypeError when
\* nearest_station is None.
CallAgentFindNearestStation ==
    /\ searched = "none"
    /\ searched' = "agent"
    /\ LET r == find_nearest_station(stations, user_coords)
       IN  nearest' = [nearest_station |-> r.nearest_station,
                       min_distance |-> r.min_distance,
                       raised |-> IF r.nearest_station = NoStation
                                  THEN "TypeError" ELSE "none"]
    /\ UNCHANGED <<stations, user_coords, nearestFrame>>

NearestStep ==
    \/ CallFindNearestStation
    \/ CallMultiCityScan
    \/ CallAgentFindNearestStation

(***************************************************************************)
(* 3-hour rain forecast: get_forecast (weather_dashboard.py 135-152) and    *)
(* WeatherAgent.forecast (weather_agent.py 51-73).  Text is a sequence of   *)
(* one-character strings.                                                   *)
(***************************************************************************)
\* `val > 70`
RainThreshold == 70

Digits == <<"0", "1", "2", "3", "4", "5", "6", "7", "8", "9">>

IsDigit(c) == \E i \in 1..10 : Digits[i] = c

DigitVal(c) == (CHOOSE i \in 1..10 : Digits[i] = c) - 1

Whitespace == {" ", "\n"}

\* The forecast endpoint's line for one point: "<intensity, 3 digits>|<label>"
\* followed by a newline.
FeedLine(pt) ==
    <<Digits[(pt.intensity \div 100) + 1],
      Digits[((pt.intensity \div 10) % 10) + 1],
      Digits[(pt.intensity % 10) + 1],
      "|">> \o pt.label \o <<"\n">>

\* The body the forecast endpoint returns for a series of points.
RECURSIVE FeedText(_)
FeedText(pts) ==
    IF pts = <<>> THEN <<>> ELSE FeedLine(Head(pts)) \o FeedText(Tail(pts))

RECURSIVE lstrip(_)
lstrip(t) ==
    IF t # <<>> /\ Head(t) \in Whitespace THEN lstrip(Tail(t)) ELSE t

RECURSIVE rstrip(_)
rstrip(t) ==
    IF t # <<>> /\ t[Len(t)] \in Whitespace
    THEN rstrip(SubSeq(t, 1, Len(t) - 1))
    ELSE t

\* str.strip()
strip(t) == rstrip(lstrip(t))

\* str.split(sep): the pieces between the separators, at least one piece.
RECURSIVE split(_, _)
split(t, sep) ==
    IF t = <<>> THEN << <<>> >>
    ELSE IF Head(t) = sep THEN << <<>> >> \o split(Tail(t), sep)
    ELSE LET rest == split(Tail(t), sep)
         IN  << <<Head(t)>> \o Head(rest) >> \o Tail(rest)

\* Whether int(value) accepts the text: digits, after stripping whitespace.
IsIntText(value) ==
    /\ strip(value) # <<>>
    /\ \A i \in 1..Len(strip(value)) : IsDigit(strip(value)[i])

RECURSIVE IntOfDigits(_)
IntOfDigits(t) ==
    IF t = <<>> THEN 0
    ELSE 10 * IntOfDigits(SubSeq(t, 1, Len(t) - 1)) + DigitVal(t[Len(t)])

\* int(value), for a text int accepts
int(value) == IntOfDigits(strip(value))

\* Whether `value, time = line.split("|")` and int(value) go through for
\* the line; otherwise ValueError is raised.
LineParses(line) ==
    /\ Len(split(line, "|")) = 2
    /\ IsIntText(split(line, "|")[1])

\* forecast_data.append((int(value), time))
ParsedLine(line) ==
    [val |-> int(split(line, "|")[1]), time |-> split(line, "|")[2]]

\* `val > 70`
IsRain(val) == val > RainThreshold

\* get_forecast's body on the response text: lines 140-152.
ForecastOf(text) ==
    LET lines == split(strip(text), "\n")
    IN  IF \E i \in 1..Len(lines) : ~LineParses(lines[i])
        THEN [outcome |-> "ValueError", time |-> <<>>]
        ELSE LET forecast_data == [i \in 1..Len(lines) |-> ParsedLine(lines[i])]
                 will_rain == \E i \in 1..Len(lines) : IsRain(forecast_data[i].val)
             IN  IF will_rain
                 THEN LET first == CHOOSE i \in 1..Len(lines) :
                                      /\ IsRain(forecast_data[i].val)
                                      /\ \A j \in 1..(i - 1) :
                                            ~IsRain(forecast_data[j].val)
                      IN  [outcome |-> "rain", time |-> forecast_data[first].time]
                 ELSE [outcome |-> "no_rain", time |-> <<>>]

\* Intensities (0-255 scale) and time labels of the series explored.
IntensityPool == {0, 70, 71, 85, 255}

LabelPool == {<<"1", "4", ":", "3", "0">>, <<"1", "4", ":", "3", "5">>}

ForecastPoints == [intensity : IntensityPool, label : LabelPool]

ForecastIdle ==
    /\ forecast_points = <<>>
    /\ response_text = <<>>
    /\ forecast_by = "none"
    /\ forecast_msg = [outcome |-> "none", time |-> <<>>]

ForecastStart ==
    /\ forecast_points \in SeqUpTo(ForecastPoints, MaxPoints)
    /\ response_text = FeedText(forecast_points)
    /\ forecast_by = "none"
    /\ forecast_msg = [outcome |-> "none", time |-> <<>>]

\* forecast_msg = get_forecast(*coords)
CallGetForecast ==
    /\ forecast_by = "none"
    /\ forecast_by' = "dashboard"
    /\ forecast_msg' = ForecastOf(response_text)
    /\ UNCHANGED <<forecast_points, response_text, forecastFrame>>

\* agent.forecast(), the agent having coordinates
CallAgentForecast ==
    /\ forecast_by = "none"
    /\ forecast_by' = "agent"
    /\ forecast_msg' = ForecastOf(response_text)
    /\ UNCHANGED <<forecast_points, response_text, forecastFrame>>

ForecastStep ==
    \/ CallGetForecast
    \/ CallAgentForecast

(***************************************************************************)
(* Geocoder: get_city_coordinates (weather_dashboard.py 45-112), memoised   *)
(* by st.cache_data(ttl=3600) on its argument.                              *)
(***************************************************************************)
\* @st.cache_data(ttl=3600), seconds
CityCacheTTL == 3600

\* `50.5 <= lat <= 53.8 and 3.0 <= lon <= 7.5`, in units of 1e-5 degree
LatMin == 5050000

LatMax == 5380000

LonMin == 300000

LonMax == 750000

\* The fallback table, keyed by lower-case names.
DUTCH_CITIES ==
    (<<"a", "m", "s", "t", "e", "r", "d", "a", "m">> :> <<5236760, 490410>>)
    @@ (<<"r", "o", "t", "t", "e", "r", "d", "a", "m">> :> <<5192250, 447917>>)
    @@ (<<"t", "h", "e", " ", "h", "a", "g", "u", "e">> :> <<5207050, 430070>>)
    @@ (<<"d", "e", "n", " ", "h", "a", "a", "g">> :> <<5207050, 430070>>)
    @@ (<<"u", "t", "r", "e", "c", "h", "t">> :> <<5209070, 512140>>)
    @@ (<<"e", "i", "n", "d", "h", "o", "v", "e", "n">> :> <<5144160, 546970>>)
    @@ (<<"g", "r", "o", "n", "i", "n", "g", "e", "n">> :> <<5321940, 656650>>)
    @@ (<<"t", "i", "l", "b", "u", "r", "g">> :> <<5155550, 509130>>)
    @@ (<<"a", "l", "m", "e", "r", "e">> :> <<5235080, 526470>>)
    @@ (<<"b", "r", "e", "d", "a">> :> <<5157190, 476830>>)
    @@ (<<"n", "i", "j", "m", "e", "g", "e", "n">> :> <<5181260, 583720>>)
    @@ (<<"e", "n", "s", "c", "h", "e", "d", "e">> :> <<5222150, 689370>>)
    @@ (<<"h", "a", "a", "r", "l", "e", "m">> :> <<5238740, 464620>>)
    @@ (<<"a", "r", "n", "h", "e", "m">> :> <<5198510, 589870>>)
    @@ (<<"z", "a", "a", "n", "s", "t", "a", "d">> :> <<5243890, 482940>>)
    @@ (<<"a", "m", "e", "r", "s", "f", "o", "o", "r", "t">> :> <<5215610, 538780>>)
    @@ (<<"a", "p", "e", "l", "d", "o", "o", "r", "n">> :> <<5221120, 596990>>)
    @@ (<<"l", "e", "i", "d", "e", "n">> :> <<5216010, 449700>>)
    @@ (<<"m", "a", "a", "s", "t", "r", "i", "c", "h", "t">> :> <<5085140, 569090>>)
    @@ (<<"d", "o", "r", "d", "r", "e", "c", "h", "t">> :> <<5181330, 469010>>)
    @@ (<<"z", "o", "e", "t", "e", "r", "m", "e", "e", "r">> :> <<5205750, 449320>>)
    @@ (<<"z", "w", "o", "l", "l", "e">> :> <<5251680, 608300>>)
    @@ (<<"d", "e", "l", "f", "t">> :> <<5201160, 435710>>)
    @@ (<<"a", "l", "k", "m", "a", "a", "r">> :> <<5263180, 474740>>)

UpperCase == <<"A", "B", "C", "D", "E", "F", "G", "H", "I", "J", "K", "L", "M",
               "N", "O", "P", "Q", "R", "S", "T", "U", "V", "W", "X", "Y", "Z">>

LowerCase == <<"a", "b", "c", "d", "e", "f", "g", "h", "i", "j", "k", "l", "m",
               "n", "o", "p", "q", "r", "s", "t", "u", "v", "w", "x", "y", "z">>

LowerChar(c) ==
    IF \E i \in 1..26 : UpperCase[i] = c
    THEN LowerCase[CHOOSE i \in 1..26 : UpperCase[i] = c]
    ELSE c

\* str.lower()
lower(t) == [i \in 1..Len(t) |-> LowerChar(t[i])]

\* A normalisation that forgets to lower-case.
city_lower_of_NoLower(city) == strip(city)

\* city_lower = city.lower().strip()
city_lower_of(city) == strip(lower(city))

\* A validation that lets every match through.
InBoundingBoxAnywhere(lat, lon) == TRUE

\* `if 50.5 <= lat <= 53.8 and 3.0 <= lon <= 7.5`
InBoundingBox(lat, lon) ==
    LatMin <= lat /\ lat <= LatMax /\ LonMin <= lon /\ lon <= LonMax

\* What Nominatim(...) and geolocator.geocode(city) can raise.
GeocoderExceptions ==
    {"GeocoderTimedOut", "GeocoderRateLimited", "GeocoderUnavailable",
     "ConfigurationError"}

\* A handler that catches time-outs only.
CaughtByExceptTimeoutOnly(exc) == exc = "GeocoderTimedOut"

\* `except Exception as e:` catches every exception of the geocoder
CaughtByExcept(exc) == exc \in GeocoderExceptions

\* The locations the geocoding service may answer with: inside the box, on
\* two of its corners, just outside it, and far outside it.
ServiceLocations ==
    {<<5305000, 480000>>, <<5050000, 300000>>, <<5380000, 750000>>,
     <<5380001, 500000>>, <<5200000, 299999>>, <<4041680, -370380>>}

\* What a use of the geocoding service does: a best match, no match, or an
\* exception.
ServiceOutcomes ==
    [kind : {"location"}, at : ServiceLocations, exc : {"none"}]
    \cup [kind : {"no_match"}, at : {NoCoords}, exc : {"none"}]
    \cup [kind : {"exception"}, at : {NoCoords}, exc : GeocoderExceptions]

\* The body of get_city_coordinates for argument city, the geocoding service
\* answering svc if it is asked: the value returned (NoCoords for None), the
\* exception that leaves the function, and whether the service was asked.
CityCoordinatesBody(city, svc) ==
    IF city_lower_of(city) \in DOMAIN DUTCH_CITIES
    THEN [ret |-> DUTCH_CITIES[city_lower_of(city)], raised |-> "none",
          service |-> FALSE]
    ELSE IF svc.kind = "exception"
         THEN IF CaughtByExcept(svc.exc)
              THEN [ret |-> NoCoords, raised |-> "none", service |-> TRUE]
              ELSE [ret |-> NoCoords, raised |-> svc.exc, service |-> TRUE]
    ELSE IF svc.kind = "location" /\ InBoundingBox(svc.at[1], svc.at[2])
         THEN [ret |-> svc.at, raised |-> "none", service |-> TRUE]
    ELSE [ret |-> NoCoords, raised |-> "none", service |-> TRUE]

\* The service is not asked (the table holds the name, or the cache answers).
NotAsked == [kind |-> "not_asked", at |-> NoCoords, exc |-> "none"]

\* st.cache_data: an entry answers a call while it is younger than the ttl.
CacheFresh(entry, now, ttl) == entry.cached /\ now - entry.stored_at < ttl

NoEntry == [cached |-> FALSE, value |-> NoCoords, stored_at |-> 0]

\* The city names typed in the model.
CityInputs ==
    {<<"L", "e", "i", "d", "e", "n">>, <<" ", "l", "e", "i", "d", "e", "n", " ">>,
     <<"D", "e", "n", " ", "H", "a", "a", "g">>, <<"T", "e", "x", "e", "l">>}

\* default_city = "Amsterdam", also the text input's default
Amsterdam == <<"A", "m", "s", "t", "e", "r", "d", "a", "m">>

\* The city names typed in a session.
SessionCities == {Amsterdam, <<"T", "e", "x", "e", "l">>}

\* How far the clock moves in one step.
ClockSteps == {1800}

GeoIdle ==
    /\ clock = 0
    /\ city_cache = [c \in CityInputs \cup SessionCities |-> NoEntry]
    /\ geo = [city |-> <<>>, ret |-> NoCoords, raised |-> "none",
              service |-> FALSE, from_cache |-> FALSE, svc |-> NotAsked,
              calls |-> 0,
              origin |-> [c \in CityInputs \cup SessionCities |-> "none"]]

\* A cache that keeps a result only if it is not None.
CachedCityCoordinatesSkipsNone(city, svc, cache, now) ==
    IF CacheFresh(cache[city], now, CityCacheTTL)
    THEN [ret |-> cache[city].value, raised |-> "none", service |-> FALSE,
          from_cache |-> TRUE, cache |-> cache]
    ELSE LET r == CityCoordinatesBody(city, svc)
         IN  [ret |-> r.ret, raised |-> r.raised, service |-> r.service,
              from_cache |-> FALSE,
              cache |-> IF r.raised = "none" /\ r.ret # NoCoords
                        THEN [cache EXCEPT ![city] =
                                [cached |-> TRUE, value |-> r.ret,
                                 stored_at |-> now]]
                        ELSE cache]

\* get_city_coordinates(city) through st.cache_data, the cache being `cache`
\* and the time `now`: answered from the cache, or by the body, whose value
\* is then stored.  An exception leaving the body stores nothing.
CachedCityCoordinates(city, svc, cache, now) ==
    IF CacheFresh(cache[city], now, CityCacheTTL)
    THEN [ret |-> cache[city].value, raised |-> "none", service |-> FALSE,
          from_cache |-> TRUE, cache |-> cache]
    ELSE LET r == CityCoordinatesBody(city, svc)
         IN  [ret |-> r.ret, raised |-> r.raised, service |-> r.service,
              from_cache |-> FALSE,
              cache |-> IF r.raised = "none"
                        THEN [cache EXCEPT ![city] =
                                [cached |-> TRUE, value |-> r.ret,
                                 stored_at |-> now]]
                        ELSE cache]

\* The answers of the service that a call can meet: none when the cache or
\* the table answers.
ServiceAnswersNow(city, answers) ==
    IF CacheFresh(city_cache[city], clock, CityCacheTTL)
    THEN {NotAsked}
    ELSE IF city_lower_of(city) \in DOMAIN DUTCH_CITIES THEN {NotAsked}
    ELSE answers

\* coords = get_city_coordinates(city).  origin keeps, for every city, what
\* the service did in the call whose result the cache now holds (history).
CallGetCityCoordinates(city) ==
    /\ \E svc \in ServiceAnswersNow(city, ServiceOutcomes) :
          LET r == CachedCityCoordinates(city, svc, city_cache, clock)
          IN  /\ geo' = [city |-> city, ret |-> r.ret, raised |-> r.raised,
                         service |-> r.service, from_cache |-> r.from_cache,
                         svc |-> svc, calls |-> 1,
                         origin |-> IF r.cache = city_cache THEN geo.origin
                                    ELSE [geo.origin EXCEPT ![city] = svc.kind]]
              /\ city_cache' = r.cache
    /\ UNCHANGED <<clock, geoFrame>>

\* Time passes.
GeoTick ==
    /\ \E step \in ClockSteps :
          /\ clock + step <= MaxClock
          /\ clock' = clock + step
    /\ UNCHANGED <<city_cache, geo, geoFrame>>

GeoStep ==
    \/ \E city \in CityInputs : CallGetCityCoordinates(city)
    \/ GeoTick

(***************************************************************************)
(* The dashboard session: the script of weather_dashboard.py from line 674  *)
(* on, run top to bottom at every page load and every interaction, over     *)
(* st.session_state and the st.cache_data caches.                           *)
(***************************************************************************)
\* @st.cache_data(ttl=600), seconds
StationsCacheTTL == 600

\* st.session_state.weather_data = None
NoData == [none |-> TRUE]

\* st.session_state.city_name = None
NoCity == <<"None">>

\* The answers of the geocoding service met in a session.
SessionServiceOutcomes ==
    {[kind |-> "location", at |-> <<5305000, 480000>>, exc |-> "none"],
     [kind |-> "no_match", at |-> NoCoords, exc |-> "none"],
     [kind |-> "exception", at |-> NoCoords, exc |-> "GeocoderUnavailable"]}

\* The station lists the feed holds over time: two successive sets of
\* readings, and an empty list.
FeedSnapshots ==
    {<<[stationname |-> "Schiphol", lat |-> 5231760, lon |-> 490410, temperature |-> 12],
       [stationname |-> "DeKooy",   lat |-> 5292000, lon |-> 478000, temperature |-> 10]>>,
     <<[stationname |-> "Schiphol", lat |-> 5231760, lon |-> 490410, temperature |-> 13],
       [stationname |-> "DeKooy",   lat |-> 5292000, lon |-> 478000, temperature |-> 10]>>,
     <<>>}

\* How a fetch through api_request_with_retry ends: with the response, or
\* with the exception of one of its except clauses.
FetchErrors == {ExceptClause(e) : e \in RequestExceptions}

FetchResults == {"ok"} \cup FetchErrors

\* find_nearest_station(coords), the feed being fetched anew: lines 115-132.
FindNearestStationCall(coords, fetch, feedNow) ==
    IF fetch = "ok"
    THEN [station |-> find_nearest_station(feedNow, coords).nearest_station,
          distance |-> find_nearest_station(feedNow, coords).min_distance,
          scanned |-> <<feedNow>>, raised |-> "none"]
    ELSE [station |-> NoStation, distance |-> Inf, scanned |-> <<>>,
          raised |-> fetch]

NoList == [cached |-> FALSE, value |-> <<>>, stored_at |-> 0]

\* get_all_stations() through st.cache_data: lines 158-164.
GetAllStations(fetch, cache, now, feedNow) ==
    IF CacheFresh(cache, now, StationsCacheTTL)
    THEN [ret |-> cache.value, raised |-> "none", cache |-> cache,
          fetched_at |-> cache.stored_at]
    ELSE IF fetch = "ok"
         THEN [ret |-> feedNow, raised |-> "none",
               cache |-> [cached |-> TRUE, value |-> feedNow, stored_at |-> now],
               fetched_at |-> now]
    ELSE [ret |-> <<>>, raised |-> fetch, cache |-> cache, fetched_at |-> now]

\* The ends a fetch by get_all_stations can have now: none when the cache
\* answers.
StationFetchesNow ==
    IF CacheFresh(stations_cache, clock, StationsCacheTTL)
    THEN {"ok"}
    ELSE FetchResults

\* The script's variables at the start of a run; failed tells whether a
\* fetch of the run has failed so far (history).
NoScript ==
    [coords |-> NoCoords, station |-> NoStation, distance |-> Inf,
     all_stations |-> <<>>, scanned |-> <<>>, failed |-> FALSE]

\* The page at the start of a run: no st.error message (error), no
\* st.warning of the forecast section (warning), no reading, and no
\* exception that ended the run and was printed by Streamlit itself (raw).
NothingShown ==
    [error |-> "none", warning |-> FALSE, reading |-> FALSE, raw |-> FALSE]

\* The script's variables once a run has ended: its locals are gone; what
\* remains is whether a fetch of the run failed.
EndOfRun(failed) == [NoScript EXCEPT !.failed = failed]

\* ttl of get_forecast's cache
ForecastCacheTTL == 900

\* ttl of get_five_day_forecast's cache
FiveDayCacheTTL == 1800

\* An entry of a cache whose value the model does not follow.
NoForecast == [cached |-> FALSE, stored_at |-> 0]

\* The coordinates a session can have stored: those get_city_coordinates
\* can return for the cities of a session.
SessionCoords ==
    {CityCoordinatesBody(c, svc).ret :
        c \in SessionCities, svc \in SessionServiceOutcomes} \ {NoCoords}

\* How a call of get_forecast can end when it has to fetch: as a fetch
\* does, or with the ValueError of line 144 on a line without a "|".
ForecastResults == FetchResults \cup {"ValueError"}

\* A function behind st.cache_data whose entry is `entry`: the cache
\* answers while the entry is fresh, else the body runs and its value is
\* stored unless it raises.
ThroughCache(result, entry, now, ttl) ==
    IF CacheFresh(entry, now, ttl)
    THEN [raised |-> "none", cache |-> entry]
    ELSE IF result = "ok"
         THEN [raised |-> "none", cache |-> [cached |-> TRUE, stored_at |-> now]]
    ELSE [raised |-> result, cache |-> entry]

\* The ends the body of such a function can have now: none when the cache
\* answers.
ResultsNow(results, entry, ttl) ==
    IF CacheFresh(entry, clock, ttl) THEN {"ok"} ELSE results

\* Python truthiness of a station object: `if station:`
StationTruthy(st) == st # NoStation

SessionIdle ==
    /\ first_load = TRUE
    /\ weather_data = NoData
    /\ city_name = NoCity
    /\ stations_cache = NoList
    /\ forecast_cache = [c \in SessionCoords |-> NoForecast]
    /\ five_day_cache = NoForecast
    /\ feed = <<>>
    /\ pc = "idle"
    /\ submitted = FALSE
    /\ city_input = Amsterdam
    /\ script = NoScript
    /\ shown = NothingShown
    /\ at = [station |-> 0, list |-> 0]

\* A session opens: lines 674-682.
SessionStart ==
    /\ first_load = TRUE
    /\ weather_data = NoData
    /\ city_name = NoCity
    /\ stations_cache = NoList
    /\ forecast_cache = [c \in SessionCoords |-> NoForecast]
    /\ five_day_cache = NoForecast
    /\ feed \in FeedSnapshots
    /\ pc = "idle"
    /\ submitted = FALSE
    /\ city_input = Amsterdam
    /\ script = NoScript
    /\ shown = NothingShown
    /\ at = [station |-> 0, list |-> 0]

\* The script starts a run: the page is empty again, the form hands over its
\* values (nothing can have been submitted before the first run), and the
\* run goes to the auto-load (first visit, lines 685-687), to the search
\* handler (line 716) or straight to the display (line 754).
StartRun(sub, c) ==
    /\ pc = "idle"
    /\ first_load => ~sub
    /\ ~sub => c = Amsterdam
    /\ submitted' = sub
    /\ city_input' = c
    /\ script' = NoScript
    /\ shown' = NothingShown
    /\ first_load' = FALSE
    /\ pc' = IF first_load THEN "auto_coords"
             ELSE IF sub THEN "search_coords" ELSE "display"
    /\ UNCHANGED <<weather_data, city_name, stations_cache, feed, at,
                   clock, city_cache, sessionFrame, displayCaches>>

\* Auto-load, line 690: coords = get_city_coordinates(default_city).  With
\* no coordinates, and on any exception, the block ends without a word.
AutoCoords ==
    /\ pc = "auto_coords"
    /\ \E svc \in ServiceAnswersNow(Amsterdam, SessionServiceOutcomes) :
          LET r == CachedCityCoordinates(Amsterdam, svc, city_cache, clock)
          IN  /\ city_cache' = r.cache
              /\ IF r.raised = "none" /\ r.ret # NoCoords
                 THEN /\ script' = [script EXCEPT !.coords = r.ret]
                      /\ pc' = "auto_nearest"
                 ELSE /\ pc' = "display"
                      /\ UNCHANGED script
    /\ UNCHANGED <<first_load, weather_data, city_name, stations_cache, feed,
                   submitted, city_input, shown, at, clock, sessionFrame,
                   displayCaches>>

\* Auto-load, line 692: station, distance = find_nearest_station(coords).
AutoNearest ==
    /\ pc = "auto_nearest"
    /\ \E fetch \in FetchResults :
          LET n == FindNearestStationCall(script.coords, fetch, feed)
          IN  IF n.raised = "none"
              THEN /\ script' = [script EXCEPT !.station = n.station,
                                               !.distance = n.distance,
                                               !.scanned = n.scanned]
                   /\ pc' = "auto_all_stations"
              ELSE /\ pc' = "display"
                   /\ script' = [script EXCEPT !.failed = TRUE]
    /\ UNCHANGED <<first_load, weather_data, city_name, stations_cache, feed,
                   submitted, city_input, shown, at, clock, city_cache,
                   sessionFrame, displayCaches>>

\* Auto-load, lines 693-703: all_stations = get_all_stations(), then the
\* result is stored if there is a station.
AutoAllStations ==
    /\ pc = "auto_all_stations"
    /\ \E fetch \in StationFetchesNow :
          LET a == GetAllStations(fetch, stations_cache, clock, feed)
          IN  /\ stations_cache' = a.cache
              /\ IF a.raised = "none" /\ StationTruthy(script.station)
                 THEN /\ weather_data' = [coords |-> script.coords,
                                          station |-> script.station,
                                          distance |-> script.distance,
                                          all_stations |-> a.ret]
                      /\ city_name' = Amsterdam
                      /\ at' = [station |-> clock, list |-> a.fetched_at]
                 ELSE UNCHANGED <<weather_data, city_name, at>>
              /\ script' = IF a.raised = "none"
                           THEN [script EXCEPT !.all_stations = a.ret]
                           ELSE [script EXCEPT !.failed = TRUE]
    /\ pc' = "display"
    /\ UNCHANGED <<first_load, feed, submitted, city_input, shown, clock, city_cache,
                   sessionFrame, displayCaches>>

\* Search handler, lines 719-722: coords = get_city_coordinates(city); with
\* no coordinates the city-not-found error is shown and weather_data is
\* cleared.  An exception goes to the handler of line 739.
SearchCoords ==
    /\ pc = "search_coords"
    /\ \E svc \in ServiceAnswersNow(city_input, SessionServiceOutcomes) :
          LET r == CachedCityCoordinates(city_input, svc, city_cache, clock)
          IN  /\ city_cache' = r.cache
              /\ IF r.raised # "none"
                 THEN /\ shown' = [shown EXCEPT !.error = "fetch_error"]
                      /\ pc' = "display"
                      /\ UNCHANGED <<script, weather_data>>
                 ELSE IF r.ret = NoCoords
                 THEN /\ shown' = [shown EXCEPT !.error = "city_not_found"]
                      /\ weather_data' = NoData
                      /\ pc' = "display"
                      /\ UNCHANGED script
                 ELSE /\ script' = [script EXCEPT !.coords = r.ret]
                      /\ pc' = "search_nearest"
                      /\ UNCHANGED <<shown, weather_data>>
    /\ UNCHANGED <<first_load, city_name, stations_cache, feed, submitted,
                   city_input, at, clock, sessionFrame, displayCaches>>

\* A search handler whose except clause also clears weather_data.
SearchNearestClearsOnFailure ==
    /\ pc = "search_nearest"
    /\ \E fetch \in FetchResults :
          LET n == FindNearestStationCall(script.coords, fetch, feed)
          IN  IF n.raised = "none"
              THEN /\ script' = [script EXCEPT !.station = n.station,
                                               !.distance = n.distance,
                                               !.scanned = n.scanned]
                   /\ pc' = "search_all_stations"
                   /\ UNCHANGED <<shown, weather_data>>
              ELSE /\ shown' = [shown EXCEPT !.error = "fetch_error"]
                   /\ pc' = "display"
                   /\ script' = [script EXCEPT !.failed = TRUE]
                   /\ weather_data' = NoData
    /\ UNCHANGED <<first_load, city_name, stations_cache, feed,
                   submitted, city_input, at, clock, city_cache, sessionFrame,
                   displayCaches>>

\* Search handler, line 725: station, distance = find_nearest_station(coords);
\* an exception is shown by the handler of lines 739-751.
SearchNearest ==
    /\ pc = "search_nearest"
    /\ \E fetch \in FetchResults :
          LET n == FindNearestStationCall(script.coords, fetch, feed)
          IN  IF n.raised = "none"
              THEN /\ script' = [script EXCEPT !.station = n.station,
                                               !.distance = n.distance,
                                               !.scanned = n.scanned]
                   /\ pc' = "search_all_stations"
                   /\ UNCHANGED shown
              ELSE /\ shown' = [shown EXCEPT !.error = "fetch_error"]
                   /\ pc' = "display"
                   /\ script' = [script EXCEPT !.failed = TRUE]
    /\ UNCHANGED <<first_load, weather_data, city_name, stations_cache, feed,
                   submitted, city_input, at, clock, city_cache, sessionFrame,
                   displayCaches>>

\* A search handler that stores the result and leaves city_name as it was.
SearchAllStationsKeepsCityName ==
    /\ pc = "search_all_stations"
    /\ \E fetch \in StationFetchesNow :
          LET a == GetAllStations(fetch, stations_cache, clock, feed)
          IN  /\ stations_cache' = a.cache
              /\ IF a.raised = "none" /\ StationTruthy(script.station)
                 THEN /\ weather_data' = [coords |-> script.coords,
                                          station |-> script.station,
                                          distance |-> script.distance,
                                          all_stations |-> a.ret]
                      /\ at' = [station |-> clock, list |-> a.fetched_at]
                      /\ UNCHANGED city_name
                 ELSE UNCHANGED <<weather_data, city_name, at>>
              /\ script' = IF a.raised = "none"
                           THEN [script EXCEPT !.all_stations = a.ret]
                           ELSE [script EXCEPT !.failed = TRUE]
              /\ shown' = IF a.raised = "none" THEN shown
                          ELSE [shown EXCEPT !.error = "fetch_error"]
    /\ pc' = "display"
    /\ UNCHANGED <<first_load, feed, submitted, city_input, clock, city_cache,
                   sessionFrame, displayCaches>>

\* Search handler, lines 728-751: all_stations = get_all_stations(), then
\* the result is stored if there is a station; an exception is shown.
SearchAllStations ==
    /\ pc = "search_all_stations"
    /\ \E fetch \in StationFetchesNow :
          LET a == GetAllStations(fetch, stations_cache, clock, feed)
          IN  /\ stations_cache' = a.cache
              /\ IF a.raised = "none" /\ StationTruthy(script.station)
                 THEN /\ weather_data' = [coords |-> script.coords,
                                          station |-> script.station,
                                          distance |-> script.distance,
                                          all_stations |-> a.ret]
                      /\ city_name' = city_input
                      /\ at' = [station |-> clock, list |-> a.fetched_at]
                 ELSE UNCHANGED <<weather_data, city_name, at>>
              /\ script' = IF a.raised = "none"
                           THEN [script EXCEPT !.all_stations = a.ret]
                           ELSE [script EXCEPT !.failed = TRUE]
              /\ shown' = IF a.raised = "none" THEN shown
                          ELSE [shown EXCEPT !.error = "fetch_error"]
    /\ pc' = "display"
    /\ UNCHANGED <<first_load, feed, submitted, city_input, clock, city_cache,
                   sessionFrame, displayCaches>>

\* Lines 754-833: the stored reading and station list are put on the page
\* if st.session_state.weather_data is set; the forecasts follow.  Without
\* weather_data the run goes on at the multi-city comparison.
Display ==
    /\ pc = "display"
    /\ IF weather_data # NoData
       THEN /\ script' = [script EXCEPT !.coords = weather_data.coords,
                                        !.station = weather_data.station,
                                        !.distance = weather_data.distance,
                                        !.all_stations = weather_data.all_stations]
            /\ shown' = [shown EXCEPT !.reading = TRUE]
            /\ pc' = "forecast"
       ELSE /\ UNCHANGED <<script, shown>>
            /\ pc' = "multi_city"
    /\ UNCHANGED <<first_load, weather_data, city_name, stations_cache, feed,
                   submitted, city_input, at, clock, city_cache, sessionFrame,
                   displayCaches>>

\* forecast_msg = get_forecast(*coords): line 836 when the speak button was
\* pressed, and line 886 in every run; the first of the two calls fetches
\* unless the cache answers, the second is answered from the cache.  Both
\* stand outside any try: an exception ends the run as a raw exception.
RainForecast ==
    /\ pc = "forecast"
    /\ \E result \in ResultsNow(ForecastResults, forecast_cache[script.coords],
                                 ForecastCacheTTL) :
          LET r == ThroughCache(result, forecast_cache[script.coords], clock,
                                ForecastCacheTTL)
          IN  /\ forecast_cache' = [forecast_cache EXCEPT ![script.coords] = r.cache]
              /\ IF r.raised = "none"
                 THEN /\ pc' = "five_day"
                      /\ UNCHANGED <<script, shown>>
                 ELSE /\ pc' = "idle"
                      /\ script' = EndOfRun(TRUE)
                      /\ shown' = [shown EXCEPT !.raw = TRUE]
    /\ UNCHANGED <<first_load, weather_data, city_name, stations_cache, feed,
                   submitted, city_input, at, clock, city_cache, five_day_cache,
                   sessionFrame>>

\* Lines 899-995: forecast_data = get_five_day_forecast() inside a try whose
\* handler shows the warning "Could not load forecast: <error>"; then the
\* map (no fetch), lines 997-1027.
FiveDayForecast ==
    /\ pc = "five_day"
    /\ \E result \in ResultsNow(FetchResults, five_day_cache, FiveDayCacheTTL) :
          LET r == ThroughCache(result, five_day_cache, clock, FiveDayCacheTTL)
          IN  /\ five_day_cache' = r.cache
              /\ IF r.raised = "none"
                 THEN UNCHANGED <<script, shown>>
                 ELSE /\ script' = [script EXCEPT !.failed = TRUE]
                      /\ shown' = [shown EXCEPT !.warning = TRUE]
    /\ pc' = "multi_city"
    /\ UNCHANGED <<first_load, weather_data, city_name, stations_cache, feed,
                   submitted, city_input, at, clock, city_cache, forecast_cache,
                   sessionFrame>>

\* Lines 1033-1043: get_multi_city_weather calls get_all_stations() outside
\* any try; an exception ends the run as a raw exception.
MultiCity ==
    /\ pc = "multi_city"
    /\ \E fetch \in StationFetchesNow :
          LET a == GetAllStations(fetch, stations_cache, clock, feed)
          IN  /\ stations_cache' = a.cache
              /\ IF a.raised = "none"
                 THEN /\ script' = EndOfRun(script.failed)
                      /\ UNCHANGED shown
                 ELSE /\ script' = EndOfRun(TRUE)
                      /\ shown' = [shown EXCEPT !.raw = TRUE]
    /\ pc' = "idle"
    /\ UNCHANGED <<first_load, weather_data, city_name, feed, submitted, city_input,
                   at, clock, city_cache, sessionFrame, displayCaches>>

\* Time passes between two runs.
SessionTick ==
    /\ pc = "idle"
    /\ \E step \in {300} :
          /\ clock + step <= SessionMaxClock
          /\ clock' = clock + step
    /\ UNCHANGED <<sessionVars, city_cache, sessionFrame>>

\* The feed publishes another station list between two runs.
FeedUpdate ==
    /\ pc = "idle"
    /\ \E f \in FeedSnapshots \ {feed} : feed' = f
    /\ UNCHANGED <<first_load, weather_data, city_name, stations_cache, pc,
                   submitted, city_input, script, shown, at, clock, city_cache,
                   sessionFrame, displayCaches>>

SessionStep ==
    \/ \E sub \in BOOLEAN, c \in SessionCities : StartRun(sub, c)
    \/ AutoCoords
    \/ AutoNearest
    \/ AutoAllStations
    \/ SearchCoords
    \/ SearchNearest
    \/ SearchAllStations
    \/ Display
    \/ RainForecast
    \/ FiveDayForecast
    \/ MultiCity
    \/ SessionTick
    \/ FeedUpdate

(***************************************************************************)
(* Advice derived from one station reading: the current-conditions message  *)
(* (weather_dashboard.py 764-778, WeatherAgent.act weather_agent.py 78-95), *)
(* get_clothing_advice (309-365), get_activity_recommendations (208-306)    *)
(* and one row of the multi-city comparison (384-390, 1049-1074).           *)
(* Temperatures are whole degrees C, precipitation whole mm, wind in Bft.   *)
(***************************************************************************)
\* The optional fields of a station object.
Fields == {"temperature", "precipitation", "windspeed", "winddirection"}

\* The string 'N/A' where a number is expected (a value outside every range
\* of numbers the model uses).
NA == -2000000

\* Python's None where a wind direction is expected.
NoDirection == "<None>"

\* Values the feed gives to the fields.
TemperaturePool == {-3, 0, 5, 9, 10, 14, 15, 17, 18, 19, 20, 24, 25, 31}

PrecipitationPool == {0, 1, 2, 3}

WindspeedPool == {0, 3, 4, 5, 6, 7}

WindDirectionPool == {"W", "ZW", "NO"}

\* What a field holds when the key is absent from the station object (never
\* read: every read tests keys first).
Filler ==
    [temperature |-> NoneNum, precipitation |-> NoneNum, windspeed |-> NoneNum,
     winddirection |-> NoDirection]

\* Station objects: keys is the set of fields the object has; a field it has
\* holds a value of the feed or null.
Readings ==
    {st \in [temperature   : TemperaturePool \cup {NoneNum},
             precipitation : PrecipitationPool \cup {NoneNum},
             windspeed     : WindspeedPool \cup {NoneNum},
             winddirection : WindDirectionPool \cup {NoDirection},
             keys          : SUBSET Fields] :
        \A k \in Fields \ st.keys : st[k] = Filler[k]}

\* station.get(key, default)
Get(station, key, default) ==
    IF key \in station.keys THEN station[key] ELSE default

\* `"W" in wind_dir` for the directions of the feed
HasW(wind_dir) == wind_dir \in {"W", "ZW"}

\* ---- current-conditions message of the dashboard, lines 764-778 ----
WeatherDecisionMessage(station) ==
    IF ~(Fields \subseteq station.keys)
    THEN [msg |-> "none", raised |-> "KeyError"]
    ELSE LET temp      == station["temperature"]
             rain      == station["precipitation"]
             windspeed == station["windspeed"]
         IN  [msg |-> IF Truthy(rain) /\ rain > 0 THEN "raining"
                      ELSE IF Truthy(windspeed) /\ windspeed > 5 THEN "windy"
                      ELSE IF Truthy(temp) /\ temp < 10 THEN "cold"
                      ELSE "nice",
              raised |-> "none"]

\* ---- WeatherAgent.act, weather_agent.py 78-95 (self.data is the station) --
act(station) ==
    IF ~(Fields \subseteq station.keys)
    THEN [msg |-> "none", raised |-> "KeyError"]
    ELSE LET temp      == station["temperature"]
             rain      == station["precipitation"]
             windspeed == station["windspeed"]
             wind_dir  == station["winddirection"]
         IN  IF rain = NoneNum THEN [msg |-> "none", raised |-> "TypeError"]
             ELSE IF rain > 0 THEN [msg |-> "raining", raised |-> "none"]
             ELSE IF temp = NoneNum THEN [msg |-> "none", raised |-> "TypeError"]
             ELSE IF temp < 10 THEN [msg |-> "cold", raised |-> "none"]
             ELSE IF wind_dir = NoDirection
                  THEN [msg |-> "none", raised |-> "TypeError"]
             ELSE IF HasW(wind_dir) /\ windspeed = NoneNum
                  THEN [msg |-> "none", raised |-> "TypeError"]
             ELSE IF HasW(wind_dir) /\ windspeed > 6
                  THEN [msg |-> "windy", raised |-> "none"]
             ELSE [msg |-> "nice", raised |-> "none"]

\* ---- get_clothing_advice, lines 309-365 ----
\* `temp and temp < bound`
InBandBelow(temp, bound) == Truthy(temp) /\ temp < bound

\* The branch of the if/elif chain of lines 323-350 that is taken, named by
\* the summary it sets.
ClothingSummary(temp) ==
    IF InBandBelow(temp, 0) THEN "Bundle up! It's freezing."
    ELSE IF InBandBelow(temp, 10) THEN "Dress warmly - it's quite cold."
    ELSE IF InBandBelow(temp, 15) THEN "Layers recommended - mild but cool."
    ELSE IF InBandBelow(temp, 20) THEN "Pleasant weather - light clothing."
    ELSE IF InBandBelow(temp, 25) THEN "Warm and nice - dress light!"
    ELSE "Hot! Minimal clothing and sun protection."

\* What the branch with that summary sets.
TierAdvice(summary) ==
    CASE summary = "Bundle up! It's freezing." ->
           [layers |-> <<"Thermal base layer", "Warm sweater", "Winter coat">>,
            accessories |-> <<"Scarf", "Gloves", "Winter hat">>,
            footwear |-> "Insulated winter boots", summary |-> summary]
      [] summary = "Dress warmly - it's quite cold." ->
           [layers |-> <<"Long sleeve shirt", "Sweater", "Jacket">>,
            accessories |-> <<"Light scarf">>,
            footwear |-> "Closed shoes or boots", summary |-> summary]
      [] summary = "Layers recommended - mild but cool." ->
           [layers |-> <<"Long sleeve shirt", "Light jacket or cardigan">>,
            accessories |-> <<>>,
            footwear |-> "Comfortable closed shoes", summary |-> summary]
      [] summary = "Pleasant weather - light clothing." ->
           [layers |-> <<"T-shirt or light shirt", "Optional light jacket">>,
            accessories |-> <<>>,
            footwear |-> "Sneakers or casual shoes", summary |-> summary]
      [] summary = "Warm and nice - dress light!" ->
           [layers |-> <<"T-shirt or polo", "Shorts or light pants OK">>,
            accessories |-> <<"Sunglasses">>,
            footwear |-> "Light shoes or sandals", summary |-> summary]
      [] summary = "Hot! Minimal clothing and sun protection." ->
           [layers |-> <<"Light breathable shirt", "Shorts recommended">>,
            accessories |-> <<"Sunglasses", "Hat", "Sunscreen">>,
            footwear |-> "Sandals or breathable shoes", summary |-> summary]

\* A rain adjustment that keeps the footwear of the temperature branch.
RainAdjustmentKeepsFootwear(a, rain) ==
    IF Truthy(rain) /\ rain > 0
    THEN IF rain > 2
         THEN [a EXCEPT !.accessories = @ \o <<"Umbrella", "Rain jacket/coat">>]
         ELSE [a EXCEPT !.accessories = Append(@, "Umbrella")]
    ELSE a

\* Rain adjustments, lines 353-357.
RainAdjustment(a, rain) ==
    IF Truthy(rain) /\ rain > 0
    THEN IF rain > 2
         THEN [a EXCEPT !.accessories = @ \o <<"Umbrella", "Rain jacket/coat">>,
                        !.footwear = "Waterproof boots"]
         ELSE [a EXCEPT !.accessories = Append(@, "Umbrella")]
    ELSE a

\* `'Light jacket' in str(advice['layers'])`: of the layers the function
\* sets, the only one whose text holds 'Light jacket' (the test is case
\* sensitive: 'Optional light jacket' does not) is 'Light jacket or cardigan'.
MentionsLightJacket(layers) ==
    \E i \in 1..Len(layers) : layers[i] = "Light jacket or cardigan"

\* Wind adjustments, lines 360-363.
WindAdjustment(a, windspeed) ==
    IF Truthy(windspeed) /\ windspeed > 4
    THEN [a EXCEPT !.accessories = Append(@, "Windbreaker recommended"),
                   !.layers = IF MentionsLightJacket(a.layers) THEN @
                              ELSE Append(@, "Windproof layer")]
    ELSE a

get_clothing_advice(station) ==
    LET temp      == Get(station, "temperature", 15)
        rain      == Get(station, "precipitation", 0)
        windspeed == Get(station, "windspeed", 3)
    IN  WindAdjustment(RainAdjustment(TierAdvice(ClothingSummary(temp)), rain),
                       windspeed)

\* ---- get_activity_recommendations, lines 208-306 ----
Cycling(temp, rain, windspeed) ==
    IF Truthy(rain) /\ rain > 0 THEN [suitable |-> FALSE, reason |-> "raining"]
    ELSE IF Truthy(windspeed) /\ windspeed > 5
         THEN [suitable |-> FALSE, reason |-> "strong wind"]
    ELSE IF Truthy(temp) /\ temp < 5 THEN [suitable |-> TRUE, reason |-> "cold ride"]
    ELSE IF Truthy(temp) /\ temp > 30 THEN [suitable |-> TRUE, reason |-> "very hot"]
    ELSE [suitable |-> TRUE, reason |-> "great conditions"]

Running(temp, rain) ==
    IF Truthy(rain) /\ rain > 0 THEN [suitable |-> FALSE, reason |-> "rainy"]
    ELSE IF Truthy(temp) /\ temp > 28 THEN [suitable |-> FALSE, reason |-> "too hot"]
    ELSE IF Truthy(temp) /\ temp < 0 THEN [suitable |-> FALSE, reason |-> "very cold"]
    ELSE [suitable |-> TRUE, reason |-> "good for a run"]

Bbq(temp, rain, windspeed) ==
    IF Truthy(rain) /\ rain > 0 THEN [suitable |-> FALSE, reason |-> "rainy"]
    ELSE IF Truthy(temp) /\ temp < 15 THEN [suitable |-> FALSE, reason |-> "a bit cold"]
    ELSE IF Truthy(windspeed) /\ windspeed > 4
         THEN [suitable |-> FALSE, reason |-> "windy"]
    ELSE [suitable |-> TRUE, reason |-> "perfect"]

\* Lines 279-287.
Beach(temp, rain, windspeed) ==
    IF Truthy(rain) /\ rain > 0 THEN [suitable |-> FALSE, reason |-> "rainy"]
    ELSE IF Truthy(temp) /\ temp < 18
         THEN [suitable |-> FALSE, reason |-> "too cold"]
    ELSE IF Truthy(windspeed) /\ windspeed > 5
         THEN [suitable |-> FALSE, reason |-> "very windy"]
    ELSE [suitable |-> TRUE, reason |-> "beach day"]

Walking(rain) ==
    IF Truthy(rain) /\ rain > 2 THEN [suitable |-> FALSE, reason |-> "heavy rain"]
    ELSE IF Truthy(rain) /\ rain > 0 THEN [suitable |-> TRUE, reason |-> "light rain"]
    ELSE [suitable |-> TRUE, reason |-> "nice for a walk"]

get_activity_recommendations(station) ==
    LET temp      == Get(station, "temperature", 15)
        rain      == Get(station, "precipitation", 0)
        windspeed == Get(station, "windspeed", 3)
    IN  [cycling |-> Cycling(temp, rain, windspeed),
         running |-> Running(temp, rain),
         bbq     |-> Bbq(temp, rain, windspeed),
         beach   |-> Beach(temp, rain, windspeed),
         walking |-> Walking(rain)]

\* ---- one row of the multi-city comparison ----
\* The dictionary get_multi_city_weather appends for a station (384-390,
\* 412-418).
ComparisonRow(station) ==
    [temp |-> Get(station, "temperature", NA),
     rain |-> Get(station, "precipitation", 0),
     wind |-> Get(station, "windspeed", NA)]

\* The display of the row's temperature and rain, lines 1054-1071.
RowDisplay(row) ==
    IF row.temp # NA
    THEN IF row.temp = NoneNum
         THEN [temp |-> "none", rain |-> "none", raised |-> "TypeError"]
         ELSE [temp |-> IF row.temp < 10 THEN "blue"
                        ELSE IF row.temp > 25 THEN "red" ELSE "plain",
               rain |-> IF Truthy(row.rain) /\ row.rain > 0 THEN "mm" ELSE "no rain",
               raised |-> "none"]
    ELSE [temp |-> "N/A",
          rain |-> IF Truthy(row.rain) /\ row.rain > 0 THEN "mm" ELSE "no rain",
          raised |-> "none"]

\* ---- the derivations as steps ----
NoAdvice == [raised |-> "none"]

AdviceIdle ==
    /\ reading = [temperature |-> NoneNum, precipitation |-> NoneNum,
                  windspeed |-> NoneNum, winddirection |-> NoDirection,
                  keys |-> {}]
    /\ advised = "none"
    /\ advice = NoAdvice

AdviceStart ==
    /\ reading \in Readings
    /\ advised = "none"
    /\ advice = NoAdvice

\* The display section computes msg from the station of weather_data.
CallWeatherDecisionMessage ==
    /\ advised = "none"
    /\ advised' = "message"
    /\ advice' = WeatherDecisionMessage(reading)
    /\ UNCHANGED <<reading, adviceFrame>>

\* WeatherAgent.act() with self.data = reading.
CallAct ==
    /\ advised = "none"
    /\ advised' = "act"
    /\ advice' = act(reading)
    /\ UNCHANGED <<reading, adviceFrame>>

\* clothing = get_clothing_advice(station); nothing in it can raise.
CallGetClothingAdvice ==
    /\ advised = "none"
    /\ advised' = "clothing"
    /\ advice' = [result |-> get_clothing_advice(reading), raised |-> "none"]
    /\ UNCHANGED <<reading, adviceFrame>>

\* recommendations = get_activity_recommendations(station); nothing in it
\* can raise.
CallGetActivityRecommendations ==
    /\ advised = "none"
    /\ advised' = "activities"
    /\ advice' = [result |-> get_activity_recommendations(reading),
                  raised |-> "none"]
    /\ UNCHANGED <<reading, adviceFrame>>

\* The row get_multi_city_weather builds for the station, then its display.
CallComparisonRow ==
    /\ advised = "none"
    /\ advised' = "row"
    /\ advice' = RowDisplay(ComparisonRow(reading))
    /\ UNCHANGED <<reading, adviceFrame>>

AdviceStep ==
    \/ CallWeatherDecisionMessage
    \/ CallAct
    \/ CallGetClothingAdvice
    \/ CallGetActivityRecommendations
    \/ CallComparisonRow

(***************************************************************************)
(* The 5-day forecast section of the page (weather_dashboard.py 896-995)    *)
(* with its helper safe_int (913-926).  A value of the feed is a record:    *)
(* type is the Python type, n the number (an int as it is, a float in       *)
(* tenths), text the characters of a string.                                *)
(***************************************************************************)
IntValue(n) == [type |-> "int", n |-> n, text |-> <<>>]

FloatValue(tenths) == [type |-> "float", n |-> tenths, text |-> <<>>]

StrValue(t) == [type |-> "str", n |-> 0, text |-> t]

NoneValue == [type |-> "NoneType", n |-> 0, text |-> <<>>]

\* int(x) of a float in tenths: the fraction is dropped, towards zero.
Truncate(tenths) ==
    IF tenths >= 0 THEN tenths \div 10 ELSE -((-tenths) \div 10)

\* A numeric text without its surrounding whitespace and its sign.
Unsigned(t) ==
    IF strip(t) # <<>> /\ Head(strip(t)) \in {"+", "-"}
    THEN Tail(strip(t)) ELSE strip(t)

SignOf(t) ==
    IF strip(t) # <<>> /\ Head(strip(t)) = "-" THEN -1 ELSE 1

AllDigits(t) == \A i \in 1..Len(t) : IsDigit(t[i])

\* Whether int(text) goes through: an optional sign and digits.
IntAccepts(t) == Unsigned(t) # <<>> /\ AllDigits(Unsigned(t))

\* Whether float(text) gives a finite number: an optional sign, digits, and
\* at most one point with a digit on one side of it at least.
FloatAcceptsFinite(t) ==
    LET parts == split(Unsigned(t), ".")
    IN  /\ Len(parts) \in {1, 2}
        /\ \A i \in 1..Len(parts) : AllDigits(parts[i])
        /\ \E i \in 1..Len(parts) : parts[i] # <<>>

\* The texts float() reads as an infinity and as a NaN.
IsInfinityText(t) ==
    lower(Unsigned(t)) \in {<<"i", "n", "f">>,
                            <<"i", "n", "f", "i", "n", "i", "t", "y">>}

IsNanText(t) == lower(Unsigned(t)) = <<"n", "a", "n">>

\* int(float(text)) for a text float() reads as a finite number.
IntOfFloatText(t) == SignOf(t) * IntOfDigits(split(Unsigned(t), ".")[1])

\* safe_int(value, default=0), lines 914-926: None gives the default;
\* int(value) is tried; on ValueError or TypeError int(float(value)) is
\* tried; on ValueError or TypeError of that the default is returned.
\* int(float("inf")) raises OverflowError, which neither clause catches.
safe_int(value, default) ==
    IF value.type = "NoneType" THEN [ret |-> default, raised |-> "none"]
    ELSE IF value.type = "int" THEN [ret |-> value.n, raised |-> "none"]
    ELSE IF value.type = "float" THEN [ret |-> Truncate(value.n), raised |-> "none"]
    ELSE IF IntAccepts(value.text)
         THEN [ret |-> SignOf(value.text) * IntOfDigits(Unsigned(value.text)),
               raised |-> "none"]
    ELSE IF FloatAcceptsFinite(value.text)
         THEN [ret |-> IntOfFloatText(value.text), raised |-> "none"]
    ELSE IF IsInfinityText(value.text)
         THEN [ret |-> default, raised |-> "OverflowError"]
    ELSE [ret |-> default, raised |-> "none"]

\* The numeric fields of a day object, and those the details print.
DayFields == {"mintemperature", "maxtemperature", "rainChance", "sunChance"}

DetailFields == {"mintemperature", "maxtemperature", "rainChance"}

\* Values the feed gives to a numeric field of a day object.
ValuePool ==
    {IntValue(7), IntValue(-2), FloatValue(79), FloatValue(-79),
     StrValue(<<"7", ".", "0">>), StrValue(<<"7">>),
     StrValue(<<"-", "7", ".", "9">>), StrValue(<<" ", "8", " ">>),
     StrValue(<<"a", "b", "c">>), StrValue(<<>>),
     StrValue(<<"n", "a", "n">>), StrValue(<<"i", "n", "f">>),
     NoneValue}

\* A day object with every field; keys is the set of fields it has.
FullDay ==
    [day |-> "2026-11-03T00:00:00", mintemperature |-> IntValue(7),
     maxtemperature |-> IntValue(12), rainChance |-> IntValue(40),
     sunChance |-> IntValue(60), keys |-> DayFields]

\* Day objects of the feed: the full one, with one field given another
\* value, or without one field.
DayPool ==
    {[FullDay EXCEPT ![k] = v] : k \in DayFields, v \in ValuePool}
    \cup {[FullDay EXCEPT ![k] = NoneValue, !.keys = @ \ {k}] : k \in DayFields}

\* The number of days the details loop (lines 983-991) prints before
\* day['mintemperature'], day['maxtemperature'] or day['rainChance'] raises
\* KeyError: all of them when no day lacks one of these.
RECURSIVE DaysDetailed(_, _)
DaysDetailed(data, i) ==
    IF i > Len(data) THEN Len(data)
    ELSE IF DetailFields \subseteq data[i].keys THEN DaysDetailed(data, i + 1)
    ELSE i - 1

\* Nothing of the section is on the page.
NoFiveDay ==
    [ran |-> FALSE, min_temps |-> <<>>, max_temps |-> <<>>,
     rain_chances |-> <<>>, sun_chances |-> <<>>, chart |-> FALSE,
     details |-> 0, message |-> "none", exception |-> "none"]

\* The section, lines 899-995, given what get_five_day_forecast does (hands
\* back the list, or raises the retry layer's error).  The lists hold at most
\* 5 days, one for each of the st.columns(5).
FiveDaySection(fetch, data) ==
    IF fetch # "ok"
    THEN [NoFiveDay EXCEPT !.ran = TRUE, !.message = "Could not load forecast",
                           !.exception = fetch]
    ELSE IF data = <<>>
    THEN [NoFiveDay EXCEPT !.ran = TRUE, !.message = "Forecast unavailable"]
    ELSE LET col(k) == [i \in 1..Len(data) |->
                           safe_int(Get(data[i], k, IntValue(0)), 0)]
             rets(k) == [i \in 1..Len(data) |-> col(k)[i].ret]
         IN  IF \E k \in DayFields : \E i \in 1..Len(data) :
                    col(k)[i].raised # "none"
             THEN [NoFiveDay EXCEPT !.ran = TRUE,
                                    !.message = "Could not load forecast",
                                    !.exception = "OverflowError"]
             ELSE [ran |-> TRUE,
                   min_temps |-> rets("mintemperature"),
                   max_temps |-> rets("maxtemperature"),
                   rain_chances |-> rets("rainChance"),
                   sun_chances |-> rets("sunChance"),
                   chart |-> TRUE,
                   details |-> DaysDetailed(data, 1),
                   message |-> IF DaysDetailed(data, 1) = Len(data)
                               THEN "none" ELSE "Could not load forecast",
                   exception |-> IF DaysDetailed(data, 1) = Len(data)
                                 THEN "none" ELSE "KeyError"]

FiveDayIdle ==
    /\ fivedayforecast = <<>>
    /\ forecast_fetch = "none"
    /\ five_day = NoFiveDay

FiveDayStart ==
    /\ forecast_fetch \in FetchResults
    /\ fivedayforecast \in
          IF forecast_fetch = "ok" THEN SeqUpTo(DayPool, MaxDays) ELSE {<<>>}
    /\ five_day = NoFiveDay

\* One run of the section.
RenderFiveDayForecast ==
    /\ ~five_day.ran
    /\ five_day' = FiveDaySection(forecast_fetch, fivedayforecast)
    /\ UNCHANGED <<fivedayforecast, forecast_fetch, fiveDayFrame>>

FiveDayStep == RenderFiveDayForecast

(***************************************************************************)
(* Specifications.                                                          *)
(***************************************************************************)
\* One call of api_request_with_retry, request by request.
RetryInit ==
    RetryStart /\ NearestIdle /\ ForecastIdle /\ GeoIdle /\ SessionIdle /\ AdviceIdle
    /\ FiveDayIdle

RetryNext == RetryStep

SpecRetry == RetryInit /\ [][RetryNext]_vars

\* The same call, run to its end: the interpreter keeps executing the loop
\* (requests.get has a timeout of 10 s and time.sleep returns), so a step
\* that can be taken is taken.
SpecRetryRuns == RetryInit /\ [][RetryNext]_vars /\ WF_vars(RetryNext)

\* One nearest-station search over a station list of the feed.
NearestInit ==
    NearestStart /\ RetryIdle /\ ForecastIdle /\ GeoIdle /\ SessionIdle /\ AdviceIdle
    /\ FiveDayIdle

NearestNext == NearestStep

SpecNearest == NearestInit /\ [][NearestNext]_vars

\* One rain forecast over a series held by the forecast endpoint.
ForecastInit ==
    ForecastStart /\ RetryIdle /\ NearestIdle /\ GeoIdle /\ SessionIdle /\ AdviceIdle
    /\ FiveDayIdle

ForecastNext == ForecastStep

SpecForecast == ForecastInit /\ [][ForecastNext]_vars

\* Calls of get_city_coordinates as time passes.
GeoInit ==
    GeoIdle /\ RetryIdle /\ NearestIdle /\ ForecastIdle /\ SessionIdle /\ AdviceIdle
    /\ FiveDayIdle

GeoNext == GeoStep

SpecGeo == GeoInit /\ [][GeoNext]_vars

\* One browser session: runs of the script, with time passing and the feed
\* changing between them.
Init ==
    SessionStart /\ GeoIdle /\ RetryIdle /\ NearestIdle /\ ForecastIdle /\ AdviceIdle
    /\ FiveDayIdle

Next == SessionStep

Spec == Init /\ [][Next]_vars

\* One derivation of advice from one station reading.
AdviceInit ==
    AdviceStart /\ RetryIdle /\ NearestIdle /\ ForecastIdle /\ GeoIdle /\ SessionIdle
    /\ FiveDayIdle

AdviceNext == AdviceStep

SpecAdvice == AdviceInit /\ [][AdviceNext]_vars

\* One run of the 5-day forecast section over a list of day objects.
FiveDayInit ==
    FiveDayStart /\ RetryIdle /\ NearestIdle /\ ForecastIdle /\ GeoIdle /\ SessionIdle
    /\ AdviceIdle

FiveDayNext == FiveDayStep

SpecFiveDay == FiveDayInit /\ [][FiveDayNext]_vars

(***************************************************************************)
(* Properties of the retry layer (checked under SpecRetry).                 *)
(***************************************************************************)
Failed(i) == log[i] \in RequestExceptions

AllTimeouts == \A i \in 1..Len(log) : Failed(i) /\ "Timeout" \in Bases(log[i])

\* C1: with max_retries = 3, a call whose first two requests fail (with any
\* of the request exceptions) is still running after them, having slept 1 s
\* and then 2 s; when the third request succeeds the call has returned the
\* response, has raised nothing, and has issued exactly those 3 requests
\* (nothing more can happen).
C1_TwoFailuresThenSuccess ==
    (max_retries = DefaultMaxRetries /\ Len(log) >= 2 /\ Failed(1) /\ Failed(2))
        => /\ sleeps[1] = 1 /\ sleeps[2] = 2
           /\ Len(log) = 2 => (rpc = "loop" /\ sleeps = <<1, 2>>)
           /\ (Len(log) = 3 /\ log[3] = "ok")
                => /\ rpc = "returned"
                   /\ error = "none"
                   /\ sleeps = <<1, 2>>
                   /\ ~ENABLED RetryStep

C1_Witness ==
    /\ max_retries = DefaultMaxRetries
    /\ log = <<"ReadTimeout", "HTTPError", "ok">>
    /\ rpc = "returned"

\* C2: for every max_retries N >= 1, while every request so far has timed
\* out the call never returns a response and has issued at most N requests;
\* before the N-th it is still retrying, and with the N-th it has raised the
\* timeout error and can issue no further request.
C2_AllTimeoutsRaiseAfterN ==
    (max_retries >= 1 /\ AllTimeouts)
        => /\ Len(log) <= max_retries
           /\ rpc # "returned"
           /\ Len(log) < max_retries => rpc = "loop"
           /\ Len(log) = max_retries
                => (rpc = "raised" /\ error = "timeout" /\ ~ENABLED RetryStep)

C2_Witness ==
    /\ max_retries = DefaultMaxRetries
    /\ log = <<"ReadTimeout", "ReadTimeout", "ReadTimeout">>
    /\ rpc = "raised"

\* C3: when a call with max_retries >= 1 has raised, every one of its
\* max_retries requests failed, and the error names one of the causes
\* timeout / connection / http / other, namely a cause of the failure of the
\* last request, whatever the earlier failures were.
C3_ErrorNamesLastFailure ==
    (rpc = "raised" /\ max_retries >= 1)
        => /\ Len(log) = max_retries
           /\ \A i \in 1..Len(log) : Failed(i)
           /\ error \in {"timeout", "connection", "http", "other"}
           /\ error \in Causes(log[Len(log)])

C3_Witness ==
    /\ rpc = "raised"
    /\ log = <<"ReadTimeout", "ConnectionError", "HTTPError">>
    /\ error = "http"

\* The requests that failed so far.
FailedRequests == {i \in 1..Len(log) : Failed(i)}

\* The sleeps due after the failed requests so far: 2^k s after the failed
\* attempt number k (from 0), for k < max_retries - 1.
SleepsDue ==
    LET slept == IF Cardinality(FailedRequests) < max_retries - 1
                 THEN Cardinality(FailedRequests) ELSE max_retries - 1
    IN  [k \in 1..slept |-> 2 ^ (k - 1)]

\* What holds of a call of api_request_with_retry at every moment.
RetryBounded ==
    /\ Len(log) <= max_retries
    /\ \A i \in 1..(Len(log) - 1) : Failed(i)
    /\ sleeps = SleepsDue
    /\ rpc = "returned"
          => /\ Len(log) >= 1 /\ log[Len(log)] = "ok"
             /\ error = "none"
             /\ ~ENABLED RetryStep
    /\ (Len(log) >= 1 /\ log[Len(log)] = "ok") => rpc = "returned"
    /\ rpc = "raised"
          => /\ Len(log) = max_retries
             /\ \A i \in 1..Len(log) : Failed(i)
             /\ error # "none"
             /\ Len(sleeps) = (IF max_retries = 0 THEN 0 ELSE max_retries - 1)
             /\ ~ENABLED RetryStep
    /\ max_retries = 0 => (log = <<>> /\ sleeps = <<>> /\ rpc # "returned")

\* C19: for every max_retries N in 0..MaxRetries and every sequence of
\* request outcomes, the call ends, with a response or with an error, after
\* at most N requests; a successful request is the last one; after the
\* failed attempt number k it has slept 2^k s when k < N - 1 and not at all
\* after the failed attempt N - 1; with N = 0 it issues no request and
\* raises.
C19_TerminatesWithinN ==
    /\ []RetryBounded
    /\ <>(rpc \in {"returned", "raised"})

C19_Witness ==
    /\ max_retries = 4
    /\ log = <<"HTTPError", "ConnectionError", "ReadTimeout", "TooManyRedirects">>
    /\ sleeps = <<1, 2, 4>>
    /\ rpc = "raised"


(***************************************************************************)
(* Properties of the nearest-station search (checked under SpecNearest).    *)
(***************************************************************************)
DistanceTo(s) == geodesic(user_coords, <<s.lat, s.lon>>)

\* C4: for every query coordinate and every non-empty station list, each of
\* the searches yields a station of the list together with its distance to
\* the query coordinate, and no station of the list is strictly closer.
C4_NearestIsMinimal ==
    (searched # "none" /\ stations # <<>>)
        => /\ nearest.nearest_station \in Range(stations)
           /\ nearest.min_distance = DistanceTo(nearest.nearest_station)
           /\ \A s \in Range(stations) : ~(DistanceTo(s) < nearest.min_distance)

C4_Witness ==
    /\ searched = "dashboard"
    /\ Len(stations) = 3
    /\ stations[1].stationname = "DeBilt"
    /\ stations[3].stationname = "Zaandam"
    /\ user_coords = ComparisonCities.Amsterdam
    /\ nearest.nearest_station.stationname = "Schiphol"

\* The positions of the list whose station is at the minimal distance.
MinimalPositions ==
    {i \in 1..Len(stations) :
        \A j \in 1..Len(stations) :
            DistanceTo(stations[i]) <= DistanceTo(stations[j])}

FirstMinimalPosition ==
    CHOOSE i \in MinimalPositions : \A j \in MinimalPositions : i <= j

\* The candidate held after the first i stations of the list.
CandidateAfter(i) == find_nearest_station(SubSeq(stations, 1, i), user_coords)

\* C17: each of the searches returns, among the stations at the minimal
\* distance, the one that comes first in the list; and while the list is
\* scanned, a station takes the place of the candidate only if it is
\* strictly closer than the candidate.
C17_FirstOfTiesWins ==
    (searched # "none" /\ stations # <<>>)
        => /\ nearest.nearest_station = stations[FirstMinimalPosition]
           /\ \A i \in 1..Len(stations) :
                 CandidateAfter(i) # CandidateAfter(i - 1)
                    => DistanceTo(stations[i]) < CandidateAfter(i - 1).min_distance

C17_Witness ==
    /\ searched = "agent"
    /\ user_coords = ComparisonCities.Amsterdam
    /\ Len(stations) = 3
    /\ stations[1].stationname = "DeBilt"
    /\ stations[2].stationname = "Zaandam"
    /\ stations[3].stationname = "Schiphol"
    /\ DistanceTo(stations[2]) = DistanceTo(stations[3])
    /\ nearest.nearest_station.stationname = "Zaandam"


(***************************************************************************)
(* Properties of the rain forecast (checked under SpecForecast).            *)
(***************************************************************************)
RainPoints == {i \in 1..Len(forecast_points) :
                  forecast_points[i].intensity > RainThreshold}

FirstRainPoint == CHOOSE i \in RainPoints : \A j \in RainPoints : i <= j

\* C10: for every series of forecast points held by the endpoint, the empty
\* series included, the forecast is the rain message with the time label of
\* the first point above 70 when there is such a point, and the no-rain
\* message when every point is at most 70.
C10_ForecastDecision ==
    forecast_by # "none"
        => IF RainPoints # {}
           THEN forecast_msg = [outcome |-> "rain",
                                time |-> forecast_points[FirstRainPoint].label]
           ELSE forecast_msg = [outcome |-> "no_rain", time |-> <<>>]

\* The same decision for every series of at least one point.
ForecastDecisionNonEmpty ==
    forecast_points # <<>> => C10_ForecastDecision


(***************************************************************************)
(* Properties of the geocoder (checked under SpecGeo).                      *)
(***************************************************************************)
Leiden == <<5216010, 449700>>

DenHaag == <<5207050, 430070>>

\* C7: a call of get_city_coordinates whose argument, trimmed and
\* lower-cased, is a key of the table returns the table's coordinate for
\* that key and does not ask the geocoding service; so "Leiden" and
\* " leiden " give (52.1601, 4.4970) and "Den Haag" gives (52.0705, 4.3007).
C7_KnownCityFromTable ==
    geo.calls = 1
        => /\ city_lower_of(geo.city) \in DOMAIN DUTCH_CITIES
                => /\ geo.ret = DUTCH_CITIES[city_lower_of(geo.city)]
                   /\ ~geo.service
                   /\ geo.svc = NotAsked
           /\ geo.city \in {<<"L", "e", "i", "d", "e", "n">>,
                            <<" ", "l", "e", "i", "d", "e", "n", " ">>}
                => (geo.ret = Leiden /\ ~geo.service)
           /\ geo.city = <<"D", "e", "n", " ", "H", "a", "a", "g">>
                => (geo.ret = DenHaag /\ ~geo.service)

C7_Witness ==
    /\ geo.calls = 1
    /\ geo.city = <<"L", "e", "i", "d", "e", "n">>
    /\ ~geo.from_cache
    /\ geo.ret = Leiden

\* C8: every coordinate get_city_coordinates returns, from the table, from
\* the service or from its cache, has 50.5 <= lat <= 53.8 and
\* 3.0 <= lon <= 7.5 (so has every entry of the table), and a match of the
\* service outside that box gives None.
C8_CoordinatesInsideBox ==
    /\ \A k \in DOMAIN DUTCH_CITIES :
          /\ LatMin <= DUTCH_CITIES[k][1] /\ DUTCH_CITIES[k][1] <= LatMax
          /\ LonMin <= DUTCH_CITIES[k][2] /\ DUTCH_CITIES[k][2] <= LonMax
    /\ (geo.calls = 1 /\ geo.ret # NoCoords)
          => /\ LatMin <= geo.ret[1] /\ geo.ret[1] <= LatMax
             /\ LonMin <= geo.ret[2] /\ geo.ret[2] <= LonMax
    /\ (geo.calls = 1 /\ geo.svc.kind = "location"
          /\ ~(/\ LatMin <= geo.svc.at[1] /\ geo.svc.at[1] <= LatMax
               /\ LonMin <= geo.svc.at[2] /\ geo.svc.at[2] <= LonMax))
          => geo.ret = NoCoords

C8_Witness ==
    /\ geo.calls = 1
    /\ geo.svc.kind = "location"
    /\ geo.svc.at = <<5380000, 750000>>
    /\ geo.ret = <<5380000, 750000>>

\* C9: no call of get_city_coordinates ends in an exception; when the
\* geocoding service raises, the call returns None, which is also what it
\* returns when the service finds no match.
C9_GeocoderSwallowsFailures ==
    geo.calls = 1
        => /\ geo.raised = "none"
           /\ geo.svc.kind \in {"exception", "no_match"} => geo.ret = NoCoords

C9_Witness ==
    /\ geo.calls = 1
    /\ geo.svc.kind = "exception"
    /\ geo.svc.exc = "GeocoderRateLimited"
    /\ geo.raised = "none"
    /\ geo.ret = NoCoords


\* The last call met a failure of the geocoding service.
ServiceFailed == geo.calls = 1 /\ geo.svc.kind = "exception"

\* The cache holds, for the city, the None of a call in which the service
\* failed, and the entry is younger than the ttl.
FailureCached(city) ==
    /\ geo.origin[city] = "exception"
    /\ city_cache[city].cached
    /\ clock - city_cache[city].stored_at < 3600

\* The None of a failed use of the service is in the cache, and while it is
\* cached a call gives None without the service, whatever the service would
\* answer now.
FailureStoredAsNone ==
    /\ ServiceFailed
          => /\ geo.ret = NoCoords
             /\ city_cache[geo.city].cached
             /\ city_cache[geo.city].value = NoCoords
             /\ city_cache[geo.city].stored_at <= clock
             /\ geo.origin[geo.city] = "exception"
    /\ \A city \in CityInputs :
          FailureCached(city)
              => \A svc \in ServiceOutcomes :
                    LET r == CachedCityCoordinates(city, svc, city_cache, clock)
                    IN  /\ r.ret = NoCoords
                        /\ ~r.service
                        /\ r.cache = city_cache

\* A call in which the service fails stores None under the city, with the
\* time of the call.
FailureIsStored ==
    (/\ geo'.svc.kind = "exception"
     /\ clock' = clock
     /\ <<geo, city_cache>>' # <<geo, city_cache>>)
        => city_cache'[geo'.city] =
              [cached |-> TRUE, value |-> NoCoords, stored_at |-> clock]

\* A step that is a call for a city whose cached None came from a failure:
\* within the ttl it returns None from the cache, the service not being
\* asked; once the ttl has elapsed the service is asked again.
CallAfterFailure ==
    \A city \in CityInputs :
        (/\ geo.origin[city] = "exception"
         /\ geo'.city = city
         /\ clock' = clock
         /\ <<geo, city_cache>>' # <<geo, city_cache>>)
            => IF clock - city_cache[city].stored_at < 3600
               THEN /\ geo'.ret = NoCoords
                    /\ geo'.from_cache
                    /\ ~geo'.service
                    /\ geo'.svc = NotAsked
                    /\ city_cache' = city_cache
               ELSE /\ geo'.service
                    /\ ~geo'.from_cache
                    /\ geo'.svc \in ServiceOutcomes
                    /\ city_cache'[city].stored_at = clock

\* C23: the None that get_city_coordinates returns when the geocoding
\* service fails is cached like any result: a second call for the same city
\* within the hour returns None without contacting the service, even if
\* the service would answer, and only after the hour is the service asked
\* again.
C23_FailureCachedForTTL ==
    /\ []FailureStoredAsNone
    /\ [][FailureIsStored /\ CallAfterFailure]_vars

\* Half an hour after the service failed for Texel, a call for Texel was
\* answered None from the cache.
C23_Witness ==
    /\ geo.calls = 1
    /\ geo.city = <<"T", "e", "x", "e", "l">>
    /\ geo.from_cache
    /\ ~geo.service
    /\ geo.ret = NoCoords
    /\ geo.origin[geo.city] = "exception"
    /\ city_cache[geo.city].stored_at = 0
    /\ clock = 1800

\* The hour after the failure having elapsed, the service was asked again
\* and answered with a location.
ServiceAskedAgainAfterTTL ==
    /\ geo.calls = 1
    /\ geo.city = <<"T", "e", "x", "e", "l">>
    /\ geo.service
    /\ geo.svc.kind = "location"
    /\ geo.ret = <<5305000, 480000>>
    /\ clock = 3600

(***************************************************************************)
(* Properties of the session (checked under Spec).                          *)
(***************************************************************************)
\* find_nearest_station ran in this run and the list it fetched was empty.
ScannedEmptyList == script.scanned = << <<>> >>

\* C5: the nearest-station search does not hand back a null station as a
\* normal result (after it returned to the search handler there is a
\* station), and a search over an empty station list ends with an error on
\* the page.
C5_EmptyListFailsExplicitly ==
    /\ pc = "search_all_stations" => script.station # NoStation
    /\ (submitted /\ ScannedEmptyList /\ pc \in {"display", "multi_city", "idle"})
          => shown.error # "none"

\* The station list stored by a search was fetched less than the ttl of
\* get_all_stations before the search.
StoredListFreshWhenStored ==
    weather_data # NoData => at.station - at.list < StationsCacheTTL

\* C6: whenever a run puts the stored reading and station list on the page,
\* neither is older than the 10 minutes declared for the station list.
C6_ShownDataWithinTTL ==
    (pc = "multi_city" /\ shown.reading)
        => /\ clock - at.list <= StationsCacheTTL
           /\ clock - at.station <= StationsCacheTTL

\* C15: a run in which a fetch failed ends with a message on the page (the
\* error of the search handler or the warning of the forecast section), and
\* no run ends in an exception that no handler caught.
C15_EveryFailureShown ==
    pc = "idle"
        => /\ ~shown.raw
           /\ script.failed => (shown.error # "none" \/ shown.warning)

\* The failures of a search handler's fetches are all shown.
SearchFailuresShown ==
    (submitted /\ script.failed /\ pc = "display") => shown.error = "fetch_error"

\* The coordinate get_city_coordinates resolves for the cities of a session:
\* the table's for Amsterdam, the geocoding service's location for Texel.
ResolvedFor(city) ==
    IF city = Amsterdam THEN <<5236760, 490410>> ELSE <<5305000, 480000>>

\* The stored pair: city_name and the coordinate of weather_data belong to
\* the same city.
StoredPairOfOneCity ==
    weather_data # NoData
        => /\ city_name \in SessionCities
           /\ weather_data.coords = ResolvedFor(city_name)

\* A step that stores weather_data stores the city of the run and the
\* coordinate the run resolved for it, and city_name changes in no other step.
StoredByTheRunsSearch ==
    /\ (weather_data' # weather_data /\ weather_data' # NoData)
          => /\ city_name' = city_input
             /\ weather_data'.coords = script.coords
             /\ script.coords = ResolvedFor(city_input)
    /\ city_name' # city_name
          => (weather_data' # weather_data /\ weather_data' # NoData)

\* C20: after any sequence of page loads and searches, whenever weather_data
\* is set, city_name is the city of the search that stored it and
\* weather_data['coords'] is the coordinate resolved for that city.
C20_CityNameOfStoredData ==
    /\ []StoredPairOfOneCity
    /\ [][StoredByTheRunsSearch]_vars

\* A search for Texel failed with a fetch error after Amsterdam was loaded,
\* and the stored pair is still Amsterdam's.
C20_Witness ==
    /\ pc = "display"
    /\ submitted
    /\ city_input = <<"T", "e", "x", "e", "l">>
    /\ shown.error = "fetch_error"
    /\ weather_data # NoData
    /\ city_name = Amsterdam
    /\ weather_data.coords = <<5236760, 490410>>

\* The step is one of the search handler in which a fetch of the retry layer
\* fails (find_nearest_station or get_all_stations raises).
SearchFetchFails ==
    /\ pc \in {"search_nearest", "search_all_stations"}
    /\ ~script.failed
    /\ script'.failed

\* The step is one of the search handler that finds no coordinates.
SearchCityNotFound ==
    /\ pc = "search_coords"
    /\ shown'.error = "city_not_found"

\* The step is one of the search handler before the result is stored.
SearchBeforeStore ==
    /\ pc \in {"search_coords", "search_nearest"}
    /\ ~SearchCityNotFound

\* A failing fetch of a search, and every step of the search before it,
\* leaves weather_data and city_name as they were; a city that is not found
\* sets weather_data to None and leaves city_name as it was.
SearchFrame ==
    /\ (SearchFetchFails \/ SearchBeforeStore)
          => (weather_data' = weather_data /\ city_name' = city_name)
    /\ SearchCityNotFound
          => (weather_data' = NoData /\ city_name' = city_name)

\* C21: a city search that fails while fetching leaves weather_data and
\* city_name exactly as they were before the search, and a search whose
\* city is not found sets weather_data to None and leaves city_name
\* unchanged.
C21_FailedSearchKeepsStoredData == [][SearchFrame]_vars

\* After a search whose city was not found cleared the data loaded for
\* Amsterdam, a search failed in a fetch: weather_data is still None and
\* city_name is still Amsterdam.
C21_Witness ==
    /\ pc = "display"
    /\ submitted
    /\ script.failed
    /\ shown.error = "fetch_error"
    /\ weather_data = NoData
    /\ city_name = Amsterdam

\* The stored station is one of the stored station list.
StationInStoredList ==
    \E i \in 1..Len(weather_data.all_stations) :
        weather_data.all_stations[i] = weather_data.station

\* C22: after every successful search the station stored in
\* weather_data['station'] is an element of the list stored in
\* weather_data['all_stations']: both come from one snapshot of the feed.
C22_StationFromStoredList ==
    (weather_data # NoData /\ submitted /\ pc = "display" /\ at.station = clock
        /\ shown.error = "none")
        => StationInStoredList

(***************************************************************************)
(* Properties of the advice (checked under SpecAdvice).                     *)
(***************************************************************************)
\* The reading has the field and the field is not null.
Measured(k) == k \in reading.keys /\ reading[k] # Filler[k]

\* The summary of the band that contains t among t < 0, 0 <= t < 10,
\* 10 <= t < 15, 15 <= t < 20, 20 <= t < 25 and t >= 25.
BandSummary(t) ==
    IF t < 0 THEN "Bundle up! It's freezing."
    ELSE IF t < 10 THEN "Dress warmly - it's quite cold."
    ELSE IF t < 15 THEN "Layers recommended - mild but cool."
    ELSE IF t < 20 THEN "Pleasant weather - light clothing."
    ELSE IF t < 25 THEN "Warm and nice - dress light!"
    ELSE "Hot! Minimal clothing and sun protection."

\* C12: for every reading with a temperature t, get_clothing_advice gives
\* the advice of the band that contains t, the boundary values 0, 10, 15, 20
\* and 25 falling in the band they open.
C12_TierOfBand ==
    (advised = "clothing" /\ Measured("temperature"))
        => advice.result.summary = BandSummary(reading.temperature)

\* The same for every temperature other than 0.
TierOfBandExceptZero ==
    reading.temperature # 0 => C12_TierOfBand

\* C13: for every reading with all four fields, the message of the dashboard
\* and of WeatherAgent.act is the first match of: rain > 0, wind above the
\* threshold, temperature < 10, and else the nice-weather message. (The
\* threshold is 5 Bft in the dashboard; in act it is 6 Bft with a wind
\* direction that has a W.)
C13_MessageFirstMatch ==
    (advised \in {"message", "act"} /\ \A k \in Fields : Measured(k))
        => LET windy == IF advised = "message" THEN reading.windspeed > 5
                        ELSE HasW(reading.winddirection) /\ reading.windspeed > 6
           IN  advice.msg = IF reading.precipitation > 0 THEN "raining"
                            ELSE IF windy THEN "windy"
                            ELSE IF reading.temperature < 10 THEN "cold"
                            ELSE "nice"

\* In the dashboard, rain comes before everything and wind before the
\* temperature.
DashboardRainThenWind ==
    (advised = "message" /\ \A k \in Fields : Measured(k))
        => /\ reading.precipitation > 0 => advice.msg = "raining"
           /\ (~(reading.precipitation > 0) /\ reading.windspeed > 5)
                 => advice.msg = "windy"

\* C14: for every reading with a temperature, a precipitation and a wind
\* speed, the beach is marked suitable only if temperature >= 18, wind
\* speed <= 5 and precipitation is not > 0.
C14_BeachOnlyWhenWarm ==
    (/\ advised = "activities"
     /\ \A k \in {"temperature", "precipitation", "windspeed"} : Measured(k)
     /\ advice.result.beach.suitable)
        => /\ reading.temperature >= 18
           /\ reading.windspeed <= 5
           /\ ~(reading.precipitation > 0)

\* The same for every temperature other than 0.
BeachOnlyWhenWarmExceptZero ==
    reading.temperature # 0 => C14_BeachOnlyWhenWarm

\* C16: whichever of the optional fields a reading lacks or has as null, no
\* derivation (message, clothing advice, activity recommendations,
\* comparison row) ends in an exception.
C16_AdviceNeverRaises ==
    advised # "none" => advice.raised = "none"

\* The reading with its precipitation replaced by r and its wind speed by w.
WithRainWind(st, r, w) ==
    [st EXCEPT !.precipitation = r, !.windspeed = w,
               !.keys = @ \cup {"precipitation", "windspeed"}]

\* What get_clothing_advice gives for the reading's temperature alone, with
\* the reading's rain alone, and with the reading's wind alone.
TierOnly == get_clothing_advice(WithRainWind(reading, 0, 0))

RainOnly ==
    get_clothing_advice(WithRainWind(reading, Get(reading, "precipitation", 0), 0))

WindOnly ==
    get_clothing_advice(WithRainWind(reading, 0, Get(reading, "windspeed", 3)))

\* What full holds after base.
Added(full, base) == SubSeq(full, Len(base) + 1, Len(full))

IsPrefix(a, b) == Len(a) <= Len(b) /\ SubSeq(b, 1, Len(a)) = a

\* Everything an advice names.
Items(a) == Range(a.layers) \cup Range(a.accessories) \cup {a.footwear}

\* The advice is the tier's advice, then what the rain adds whatever the
\* wind, then what the wind adds whatever the rain.
AdjustmentsIndependent ==
    /\ IsPrefix(TierOnly.accessories, RainOnly.accessories)
    /\ IsPrefix(TierOnly.accessories, WindOnly.accessories)
    /\ advice.result.accessories =
          TierOnly.accessories \o Added(RainOnly.accessories, TierOnly.accessories)
                               \o Added(WindOnly.accessories, TierOnly.accessories)
    /\ RainOnly.layers = TierOnly.layers
    /\ IsPrefix(TierOnly.layers, WindOnly.layers)
    /\ advice.result.layers = WindOnly.layers
    /\ WindOnly.footwear = TierOnly.footwear
    /\ advice.result.footwear = RainOnly.footwear

\* C18 (as stated): the adjustments are independent, and every item of the
\* tier, of the rain adjustment and of the wind adjustment is in the advice.
C18_NoItemRemoved ==
    advised = "clothing"
        => /\ AdjustmentsIndependent
           /\ Items(TierOnly) \subseteq Items(advice.result)
           /\ Items(RainOnly) \subseteq Items(advice.result)
           /\ Items(WindOnly) \subseteq Items(advice.result)

\* C18 (amended): the adjustments are independent and only add to the
\* accessories and the layers of the tier, but rain > 2 replaces the tier's
\* footwear by waterproof boots; with rain <= 2 the footwear is the tier's.
C18_AdjustmentsIndependentFootwearReplaced ==
    advised = "clothing"
        => /\ AdjustmentsIndependent
           /\ Range(TierOnly.layers) \cup Range(TierOnly.accessories)
                 \subseteq Items(advice.result)
           /\ Range(RainOnly.accessories) \cup Range(WindOnly.accessories)
                 \cup Range(WindOnly.layers) \subseteq Items(advice.result)
           /\ IF Measured("precipitation") /\ reading.precipitation > 2
              THEN /\ advice.result.footwear = "Waterproof boots"
                   /\ TierOnly.footwear \notin Items(advice.result)
              ELSE advice.result.footwear = TierOnly.footwear

C18_Witness ==
    /\ advised = "clothing"
    /\ Measured("temperature") /\ reading.temperature = 14
    /\ Measured("precipitation") /\ reading.precipitation = 3
    /\ Measured("windspeed") /\ reading.windspeed = 6
    /\ advice.result.footwear = "Waterproof boots"
    /\ advice.result.accessories =
          <<"Umbrella", "Rain jacket/coat", "Windbreaker recommended">>
    /\ advice.result.layers = <<"Long sleeve shirt", "Light jacket or cardigan">>

(***************************************************************************)
(* Properties of the 5-day forecast section (checked under SpecFiveDay).    *)
(***************************************************************************)
\* The integer a field of a day object stands for: an integer is itself, a
\* decimal and a decimal string give their integer part, and a field that is
\* null, missing or not a number gives 0.
IntegerOf(value) ==
    IF value.type = "int" THEN value.n
    ELSE IF value.type = "float" THEN Truncate(value.n)
    ELSE IF value.type = "str" /\ IntAccepts(value.text)
         THEN SignOf(value.text) * IntOfDigits(Unsigned(value.text))
    ELSE IF value.type = "str" /\ FloatAcceptsFinite(value.text)
         THEN IntOfFloatText(value.text)
    ELSE 0

\* The section has drawn the chart and the details of every day, with the
\* integers of every day's fields, and no warning.
RenderedForAllDays ==
    /\ five_day.message = "none"
    /\ five_day.chart
    /\ five_day.details = Len(fivedayforecast)
    /\ \A i \in 1..Len(fivedayforecast) :
          LET day == fivedayforecast[i]
          IN  /\ five_day.min_temps[i] =
                    IntegerOf(Get(day, "mintemperature", NoneValue))
              /\ five_day.max_temps[i] =
                    IntegerOf(Get(day, "maxtemperature", NoneValue))
              /\ five_day.rain_chances[i] =
                    IntegerOf(Get(day, "rainChance", NoneValue))
              /\ five_day.sun_chances[i] =
                    IntegerOf(Get(day, "sunChance", NoneValue))

\* C11: for every list of day objects the feed hands over, whatever a
\* numeric field holds (an integer, a decimal, a decimal string, null,
\* something that is no number) and whether or not it is there, the section
\* is rendered for all days with the integer of every field.
C11_FiveDayRenderedForAllDays ==
    (five_day.ran /\ forecast_fetch = "ok" /\ fivedayforecast # <<>>)
        => RenderedForAllDays

\* The same for lists in which no day lacks a field the details print and
\* no field is a text float() reads as an infinity.
FiveDayRenderedWhenFieldsPresent ==
    (\A i \in 1..Len(fivedayforecast) :
        /\ DetailFields \subseteq fivedayforecast[i].keys
        /\ \A k \in DayFields : ~IsInfinityText(fivedayforecast[i][k].text))
        => C11_FiveDayRenderedForAllDays

=============================================================================
